---- MODULE Spec2Model ----
(***************************************************************************)
(* Model of ember-apache-echarts: the style unit resolver                  *)
(* (utils/style/resolve-style.js) and the layout / axis computations of    *)
(* the bar chart modifier (modifiers/bar-chart.js).                        *)
(*                                                                         *)
(* JavaScript values are modelled as follows.                              *)
(*   - a string is a sequence of one-character strings;                    *)
(*   - a style value is a record [kind, chars, num, den]: kind "str" is a  *)
(*     string (chars), kind "num" the rational number num/den (den > 0),   *)
(*     kind "nan" is NaN, kinds "inf" / "ninf" are +Infinity / -Infinity;  *)
(*   - an optional number is a sequence: <<>> is `undefined`, <<n>> is n.  *)
(* Floating point rounding is not modelled: arithmetic is exact.           *)
(***************************************************************************)
EXTENDS Integers, Sequences, FiniteSets, TLC

VARIABLES
    pc,          \* position of the modelled call: "start" or "done"
    style,       \* resolveStyle: the parsed style (property -> token)
    context,     \* resolveStyle: the sizing context, or NoContext
    resolved,    \* resolveStyle: the returned mapping
    sortArg,     \* getCategories: args.categoryAxisSort
    series,      \* getCategories: the data series
    categories,  \* getCategories: the returned array
    warnings,    \* the messages passed to console.warn so far
    ptrIn,       \* addAxisPointer: the arguments of the call
    ptrOut,      \* addAxisPointer: the returned layout and the config
    plotIn,      \* generatePlotConfig: the arguments of the call
    plotOut,     \* generatePlotConfig: the axis infos, layouts and grid
    axisIn,      \* generatePlotConfig: the arguments the axis configs read
    axisOut,     \* generatePlotConfig: valueAxisConfig.max and the interval
    cellsIn,     \* layoutCells: the arguments of the call
    cellsOut,    \* layoutCells: the returned cells
    heap,        \* the layout objects: heap[r] is the object of reference r
    callIn,      \* a layout step: its arguments and the objects before it
    callOut,     \* a layout step: the returned reference and the config
    chartArgs,   \* configureChart: args (series, title, scale, onSelect)
    drillPath,   \* this.drillPath
    ctxData,     \* context.data of the last configureChart
    lastEvent,   \* the last chart event handled
    effects      \* what its handler did: dispatched actions, onSelect calls

styleVars == <<style, context, resolved>>

categoryVars == <<sortArg, series, categories, warnings>>

pointerVars == <<ptrIn, ptrOut>>

plotVars == <<plotIn, plotOut>>

axisVars == <<axisIn, axisOut>>

\* the variables of the calls modelled before the axis configs
coreVars == <<styleVars, categoryVars, pointerVars, plotVars>>

\* the variables of the calls modelled after generatePlotConfig's layout part
cellVars == <<cellsIn, cellsOut>>

objectVars == <<heap, callIn, callOut>>

chartVars == <<chartArgs, drillPath, ctxData, lastEvent, effects>>

laterVars == <<axisVars, cellVars, objectVars, chartVars>>

vars ==
    <<pc, style, context, resolved, sortArg, series, categories, warnings,
      ptrIn, ptrOut, plotIn, plotOut, axisIn, axisOut, cellsIn, cellsOut,
      heap, callIn, callOut, chartArgs, drillPath, ctxData, lastEvent, effects>>

----------------------------------------------------------------------------
(* Bounds of the model *)

\* largest number of integer digits of a generated token
MaxDigits == 2
\* largest number of fraction digits of a generated token
MaxFrac == 1
\* largest number of data series
MaxSeries == 2
\* largest number of data items of a series
MaxData == 2
\* largest number of categories of a plot
MaxCats == 2

----------------------------------------------------------------------------
(* JavaScript values *)

\* an optional number is <<>> (undefined) or <<n>>
Undefined == <<>>

Some(n) == <<n>>

Str(s) == [kind |-> "str", chars |-> s, num |-> 0, den |-> 1]

\* greatest common divisor of two naturals, not both zero
RECURSIVE GCD(_, _)
GCD(a, b) == IF b = 0 THEN a ELSE GCD(b, a % b)

\* the number n / d (d > 0), kept in lowest terms
Num(n, d) ==
    LET g == GCD(IF n < 0 THEN -n ELSE n, d)
    IN  [kind |-> "num", chars |-> <<>>, num |-> n \div g, den |-> d \div g]

NaN == [kind |-> "nan", chars |-> <<>>, num |-> 0, den |-> 1]

\* equality of two "num" values as rationals
NumEq(a, b) == a.kind = "num" /\ b.kind = "num" /\ a.num * b.den = b.num * a.den

\* a / k for a value a and a positive integer k (NaN stays NaN)
DivBy(a, k) == IF a.kind = "num" THEN Num(a.num, a.den * k) ELSE NaN

\* a * k for a value a and an integer k (NaN stays NaN)
MulBy(a, k) == IF a.kind = "num" THEN Num(a.num * k, a.den) ELSE NaN

RECURSIVE Pow10(_)
Pow10(k) == IF k = 0 THEN 1 ELSE 10 * Pow10(k - 1)

IsDigit(c) == c \in {"0", "1", "2", "3", "4", "5", "6", "7", "8", "9"}

DigitVal(c) ==
    CASE c = "0" -> 0 [] c = "1" -> 1 [] c = "2" -> 2 [] c = "3" -> 3
      [] c = "4" -> 4 [] c = "5" -> 5 [] c = "6" -> 6 [] c = "7" -> 7
      [] c = "8" -> 8 [] c = "9" -> 9

\* the index of the first character at or after i that is not a digit
RECURSIVE SkipDigits(_, _)
SkipDigits(s, i) ==
    IF i <= Len(s) /\ IsDigit(s[i]) THEN SkipDigits(s, i + 1) ELSE i

\* the value of the digits s[i..j-1] read as a decimal integer
RECURSIVE DigitsVal(_, _, _)
DigitsVal(s, i, j) ==
    IF j <= i THEN 0 ELSE 10 * DigitsVal(s, i, j - 1) + DigitVal(s[j - 1])

\* String.prototype.slice(0, -k)
SliceEnd(s, k) == IF Len(s) <= k THEN <<>> ELSE SubSeq(s, 1, Len(s) - k)

\* String.prototype.endsWith
EndsWith(s, suffix) ==
    /\ Len(s) >= Len(suffix)
    /\ SubSeq(s, Len(s) - Len(suffix) + 1, Len(s)) = suffix

\* The decimal literal at the start of s: optional sign, digits, optional
\* fraction.  `end` is the index after the literal, `ok` whether a literal
\* is there at all.
DecimalPrefix(s) ==
    LET hasSign == Len(s) >= 1 /\ s[1] \in {"-", "+"}
        i == IF hasSign THEN 2 ELSE 1
        j == SkipDigits(s, i)
        hasDot == j <= Len(s) /\ s[j] = "."
        k == IF hasDot THEN SkipDigits(s, j + 1) ELSE j
        fracLen == IF hasDot THEN k - (j + 1) ELSE 0
        ok == (j > i) \/ (fracLen > 0)
        mag == DigitsVal(s, i, j) * Pow10(fracLen)
                 + (IF hasDot THEN DigitsVal(s, j + 1, k) ELSE 0)
        sgn == IF hasSign /\ s[1] = "-" THEN -1 ELSE 1
    IN  [ok |-> ok, end |-> k, value |-> Num(sgn * mag, Pow10(fracLen))]

\* the global parseFloat: the longest decimal prefix, NaN when there is none
ParseFloat(s) ==
    LET p == DecimalPrefix(s) IN IF p.ok THEN p.value ELSE NaN

\* ToNumber applied to a string (as done by the `/` operator): the whole
\* string must be a numeric literal, the empty string is 0
ToNumber(s) ==
    LET p == DecimalPrefix(s)
    IN  IF s = <<>> THEN Num(0, 1)
        ELSE IF p.ok /\ p.end = Len(s) + 1 THEN p.value
        ELSE NaN

----------------------------------------------------------------------------
(* utils/style/resolve-style.js *)

\* /^-?\d+\.?\d*\px$/ with the optional sign dropped
isPixelDimensionNoSign(value) ==
    LET j == SkipDigits(value, 1)
        k == IF j <= Len(value) /\ value[j] = "." THEN j + 1 ELSE j
        m == SkipDigits(value, k)
    IN  /\ j > 1
        /\ SubSeq(value, m, Len(value)) = <<"p", "x">>

\* /^-?\d+\.?\d*\px$/  (`\p` is the letter p)
isPixelDimension(value) ==
    LET i == IF Len(value) >= 1 /\ value[1] = "-" THEN 2 ELSE 1
        j == SkipDigits(value, i)
        k == IF j <= Len(value) /\ value[j] = "." THEN j + 1 ELSE j
        m == SkipDigits(value, k)
    IN  /\ j > i
        /\ SubSeq(value, m, Len(value)) = <<"p", "x">>

\* /^-?\d+\.?\d*%+$/
isPercentDimension(value) ==
    LET i == IF Len(value) >= 1 /\ value[1] = "-" THEN 2 ELSE 1
        j == SkipDigits(value, i)
        k == IF j <= Len(value) /\ value[j] = "." THEN j + 1 ELSE j
        m == SkipDigits(value, k)
    IN  /\ j > i
        /\ m <= Len(value)
        /\ \A n \in m..Len(value) : value[n] = "%"

\* property name suffixes tested by resolvePercentDimension
Top == <<"T", "o", "p">>

Bottom == <<"B", "o", "t", "t", "o", "m">>

\* a sizing context: `present` is FALSE when no context object is passed
Context(w, h) == [present |-> TRUE, width |-> w, height |-> h]

NoContext == [present |-> FALSE, width |-> Undefined, height |-> Undefined]

\* context?.width ?? 0
ContextWidthZero(ctx) ==
    IF ~ctx.present \/ ctx.width = Undefined THEN 0 ELSE ctx.width[1]

\* context?.width ?? 1
ContextWidth(ctx) ==
    IF ~ctx.present \/ ctx.width = Undefined THEN 1 ELSE ctx.width[1]

\* context?.height ?? 1
ContextHeight(ctx) ==
    IF ~ctx.present \/ ctx.height = Undefined THEN 1 ELSE ctx.height[1]

\* resolvePercentDimension with the two axes exchanged
resolvePercentDimensionSwapped(value, side, ctx) ==
    LET v == DivBy(ToNumber(SliceEnd(value, 1)), 100)
    IN  IF EndsWith(side, Top) \/ EndsWith(side, Bottom)
        THEN MulBy(v, ContextWidth(ctx))
        ELSE MulBy(v, ContextHeight(ctx))

resolvePercentDimension(value, side, ctx) ==
    LET v == DivBy(ToNumber(SliceEnd(value, 1)), 100)
    IN  IF EndsWith(side, Top) \/ EndsWith(side, Bottom)
        THEN MulBy(v, ContextHeight(ctx))
        ELSE MulBy(v, ContextWidth(ctx))

\* the callback given to mapValues
resolveValue(value, property, ctx) ==
    IF isPixelDimension(value)
    THEN ParseFloat(SliceEnd(value, 2))
    ELSE IF isPercentDimension(value)
    THEN resolvePercentDimension(value, property, ctx)
    ELSE Str(value)

\* resolveStyle applied to the parsed style
resolveStyle(parsed, ctx) ==
    [property \in DOMAIN parsed |-> resolveValue(parsed[property], property, ctx)]

----------------------------------------------------------------------------
(* Inputs of resolveStyle *)

marginTop == <<"m", "a", "r", "g", "i", "n">> \o Top

marginBottom == <<"m", "a", "r", "g", "i", "n">> \o Bottom

marginLeft == <<"m", "a", "r", "g", "i", "n", "L", "e", "f", "t">>

borderTopWidth == <<"b", "o", "r", "d", "e", "r">> \o Top \o <<"W", "i", "d", "t", "h">>

Properties == {marginTop, marginBottom, marginLeft, borderTopWidth}

Digits == {"0", "5"}

\* the digit strings of length at most n
DigitStrings(n) == UNION {[1..k -> Digits] : k \in 0..n}

Signs == {<<>>, <<"-">>, <<"+">>}

Dots == {<<>>, <<".">>}

Suffixes == {<<>>, <<"p", "x">>, <<"%">>, <<"%", "%">>, <<"p">>, <<"x", "%">>}

\* well-formed and malformed dimension tokens
Tokens ==
    {sg \o int \o dt \o fr \o sfx :
        sg \in Signs, int \in DigitStrings(MaxDigits), dt \in Dots,
        fr \in DigitStrings(MaxFrac), sfx \in Suffixes}

SampleTokens == {<<"8", "p", "x">>, <<"5", "%">>, <<"r", "e", "d">>}

\* parsed styles: one property with any token, or two properties with
\* sample tokens
Styles ==
    UNION {[{p} -> Tokens] : p \in Properties}
      \cup UNION {[{p, q} -> SampleTokens] : p, q \in Properties}

Widths == {Undefined, Some(1), Some(400)}

Heights == {Undefined, Some(1), Some(100)}

Contexts == {NoContext} \cup {Context(w, h) : w \in Widths, h \in Heights}

----------------------------------------------------------------------------
(* resolveStyle as a state machine: the inputs are chosen, then the call   *)
(* returns.                                                                *)

\* the variables of the operations that are not observed
IdleStyle ==
    /\ style = <<>>
    /\ context = NoContext
    /\ resolved = <<>>

IdleCategories ==
    /\ sortArg = [type |-> "undefined", value |-> ""]
    /\ series = <<>>
    /\ categories = <<>>
    /\ warnings = <<>>

IdlePointer ==
    /\ ptrIn = <<>>
    /\ ptrOut = <<>>

IdlePlot ==
    /\ plotIn = <<>>
    /\ plotOut = <<>>

IdleAxes ==
    /\ axisIn = <<>>
    /\ axisOut = <<>>

IdleCore == IdleStyle /\ IdleCategories /\ IdlePointer /\ IdlePlot

IdleCells ==
    /\ cellsIn = <<>>
    /\ cellsOut = <<>>

IdleObjects ==
    /\ heap = <<>>
    /\ callIn = <<>>
    /\ callOut = <<>>

IdleChart ==
    /\ chartArgs = <<>>
    /\ drillPath = <<>>
    /\ ctxData = <<>>
    /\ lastEvent = <<>>
    /\ effects = <<>>

IdleLater == IdleAxes /\ IdleCells /\ IdleObjects /\ IdleChart

InitStyle ==
    /\ pc = "start"
    /\ style \in Styles
    /\ context \in Contexts
    /\ resolved = [p \in {} |-> NaN]
    /\ IdleCategories
    /\ IdlePointer
    /\ IdlePlot
    /\ IdleLater

ResolveStyle ==
    /\ pc = "start"
    /\ pc' = "done"
    /\ resolved' = resolveStyle(style, context)
    /\ UNCHANGED <<style, context>>
    /\ UNCHANGED <<categoryVars, pointerVars, plotVars>>
    /\ UNCHANGED laterVars

NextStyle == ResolveStyle

SpecStyle == InitStyle /\ [][NextStyle]_vars

----------------------------------------------------------------------------
(* Dimension tokens as the specification describes them: a numeral is an   *)
(* optional minus sign, at least one digit and an optional fraction; a     *)
(* pixel token is a numeral followed by "px", a percent token a numeral    *)
(* followed by one "%".                                                    *)

Unsigned(s) == IF Len(s) >= 1 /\ s[1] = "-" THEN Tail(s) ELSE s

\* the positions of s that hold a "."
DotsOf(s) == {i \in 1..Len(s) : s[i] = "."}

IsNumeral(s) ==
    LET u == Unsigned(s)
    IN  /\ Len(u) >= 1
        /\ IsDigit(u[1])
        /\ Cardinality(DotsOf(u)) <= 1
        /\ \A i \in 1..Len(u) : IsDigit(u[i]) \/ u[i] = "."

\* the digits of s, without its sign and its dot
DigitsOf(s) == SelectSeq(s, IsDigit)

\* the number a numeral denotes
NumeralValue(s) ==
    LET u == Unsigned(s)
        ds == DigitsOf(u)
        fracLen == IF DotsOf(u) = {} THEN 0
                   ELSE Len(u) - (CHOOSE i \in DotsOf(u) : TRUE)
        sgn == IF u = s THEN 1 ELSE -1
    IN  Num(sgn * DigitsVal(ds, 1, Len(ds) + 1), Pow10(fracLen))

IsPixelToken(s) == EndsWith(s, <<"p", "x">>) /\ IsNumeral(SliceEnd(s, 2))

IsPercentToken(s) == EndsWith(s, <<"%">>) /\ IsNumeral(SliceEnd(s, 1))

VerticalSides == {marginTop, marginBottom}

\* C1: a property whose parsed value is the pixel token "<n>px" resolves to
\* the number n, whatever the sizing context is (absent included).
Thm_C1 ==
    pc = "done" =>
        \A p \in DOMAIN style :
            IsPixelToken(style[p]) =>
                NumEq(resolved[p], NumeralValue(SliceEnd(style[p], 2)))

\* "-5.5px" resolved against a 400 x 100 context
Wit_C1 ==
    /\ pc = "done"
    /\ context = Context(Some(400), Some(100))
    /\ marginLeft \in DOMAIN style
    /\ style[marginLeft] = <<"-", "5", ".", "5", "p", "x">>
    /\ NumEq(resolved[marginLeft], Num(-11, 2))

\* C2: with a context {width: W, height: H}, the percent token "<p>%"
\* resolves to p/100 * H on a property ending in Top or Bottom and to
\* p/100 * W on every other property.
Thm_C2 ==
    (pc = "done" /\ context.present
        /\ context.width # Undefined /\ context.height # Undefined) =>
        \A p \in DOMAIN style :
            IsPercentToken(style[p]) =>
                LET v == NumeralValue(SliceEnd(style[p], 1))
                    side == IF p \in VerticalSides
                            THEN context.height[1] ELSE context.width[1]
                IN  NumEq(resolved[p], Num(v.num * side, v.den * 100))

\* {marginTop: "8px", marginBottom: "5%"} against height 100 gives 8 and 5
Wit_C2 ==
    /\ pc = "done"
    /\ context = Context(Some(400), Some(100))
    /\ DOMAIN style = {marginTop, marginBottom}
    /\ style[marginTop] = <<"8", "p", "x">>
    /\ style[marginBottom] = <<"5", "%">>
    /\ NumEq(resolved[marginTop], Num(8, 1))
    /\ NumEq(resolved[marginBottom], Num(5, 1))

\* C3: resolving without a context gives the result of resolving against
\* {width: 1, height: 1}, and a context lacking one dimension behaves as if
\* that dimension were 1.
Thm_C3 ==
    pc = "done" =>
        LET w == IF ~context.present \/ context.width = Undefined
                 THEN Some(1) ELSE context.width
            h == IF ~context.present \/ context.height = Undefined
                 THEN Some(1) ELSE context.height
        IN  resolved = resolveStyle(style, Context(w, h))

\* "50%" resolved without a context is the fraction 1/2
Wit_C3 ==
    /\ pc = "done"
    /\ ~context.present
    /\ marginLeft \in DOMAIN style
    /\ style[marginLeft] = <<"5", "0", "%">>
    /\ NumEq(resolved[marginLeft], Num(1, 2))

\* C4: every value resolves to a finite number when it is a well-formed
\* pixel or percent token, and is returned unchanged otherwise (malformed
\* tokens such as a number followed by several "%" included).
Cex_C4 ==
    pc = "done" =>
        \A p \in DOMAIN style :
            IF IsPixelToken(style[p]) \/ IsPercentToken(style[p])
            THEN resolved[p].kind = "num"
            ELSE resolved[p] = Str(style[p])

----------------------------------------------------------------------------
(* modifiers/bar-chart.js: getCategories *)

\* the UTF-16 code unit of a character used in a category name
Code(c) ==
    CASE c = "0" -> 48 [] c = "1" -> 49 [] c = "9" -> 57
      [] c = "B" -> 66 [] c = "a" -> 97 [] c = "b" -> 98

\* a < b in the order of the default Array.prototype.sort comparison:
\* the strings are compared code unit by code unit
RECURSIVE StringLess(_, _)
StringLess(a, b) ==
    IF b = <<>> THEN FALSE
    ELSE IF a = <<>> THEN TRUE
    ELSE IF Code(Head(a)) # Code(Head(b)) THEN Code(Head(a)) < Code(Head(b))
    ELSE StringLess(Tail(a), Tail(b))

\* the comparators a caller may pass as categoryAxisSort:
\* "byLength" is (a, b) => a.length - b.length,
\* "reverse" is (a, b) => (a < b ? 1 : a > b ? -1 : 0)
Comparators == {"byLength", "reverse"}

\* whether the comparator puts a strictly before b (a negative result)
Before(cmp, a, b) ==
    CASE cmp = "default" -> StringLess(a, b)
      [] cmp = "byLength" -> Len(a) < Len(b)
      [] cmp = "reverse" -> StringLess(b, a)

\* inserts x after the last element that is not after it (stable)
RECURSIVE InsertSorted(_, _, _)
InsertSorted(cmp, sorted, x) ==
    IF sorted = <<>> THEN <<x>>
    ELSE IF Before(cmp, x, Head(sorted)) THEN <<x>> \o sorted
    ELSE <<Head(sorted)>> \o InsertSorted(cmp, Tail(sorted), x)

\* Array.prototype.sort: a stable sort by the comparator
RECURSIVE Sort(_, _)
Sort(cmp, arr) ==
    IF arr = <<>> THEN <<>>
    ELSE InsertSorted(cmp, Sort(cmp, SubSeq(arr, 1, Len(arr) - 1)), arr[Len(arr)])

\* Array.prototype.reverse
Reverse(arr) == [i \in 1..Len(arr) |-> arr[Len(arr) + 1 - i]]

\* the `name` of every data item of every series, in input order
RECURSIVE AllNames(_)
AllNames(ss) ==
    IF ss = <<>> THEN <<>>
    ELSE [i \in 1..Len(Head(ss).data) |-> Head(ss).data[i].name]
           \o AllNames(Tail(ss))

\* keeps the first occurrence of every element
RECURSIVE Unique(_)
Unique(arr) ==
    IF arr = <<>> THEN <<>>
    ELSE LET rest == Unique(SubSeq(arr, 1, Len(arr) - 1))
             last == arr[Len(arr)]
         IN  IF \E i \in 1..Len(rest) : rest[i] = last
             THEN rest ELSE Append(rest, last)

\* getUniqueDatasetValues(series, 'name')
getUniqueDatasetValues(ss) == Unique(AllNames(ss))

InvalidSortMessage(arg) == <<"Invalid 'categoryAxisSort' value", arg.value>>

\* getCategories whose 'desc' sorts without reversing
getCategoriesDescUnreversed(arg, ss, warned) ==
    LET sort == IF arg.type = "undefined"
                THEN [type |-> "string", value |-> "firstSeries"] ELSE arg
        cats == getUniqueDatasetValues(ss)
    IN  IF sort.type = "string" /\ sort.value = "firstSeries"
        THEN [categories |-> cats, warnings |-> warned]
        ELSE IF sort.type = "string" /\ sort.value = "asc"
        THEN [categories |-> Sort("default", cats), warnings |-> warned]
        ELSE IF sort.type = "string" /\ sort.value = "desc"
        THEN [categories |-> Sort("default", cats), warnings |-> warned]
        ELSE IF sort.type = "function"
        THEN [categories |-> Sort(sort.value, cats), warnings |-> warned]
        ELSE [categories |-> cats,
              warnings |-> Append(warned, InvalidSortMessage(sort))]

\* getCategories whose fallback for an invalid value sorts the categories
getCategoriesSortedFallback(arg, ss, warned) ==
    LET sort == IF arg.type = "undefined"
                THEN [type |-> "string", value |-> "firstSeries"] ELSE arg
        cats == getUniqueDatasetValues(ss)
    IN  IF sort.type = "string" /\ sort.value = "firstSeries"
        THEN [categories |-> cats, warnings |-> warned]
        ELSE IF sort.type = "string" /\ sort.value = "asc"
        THEN [categories |-> Sort("default", cats), warnings |-> warned]
        ELSE IF sort.type = "string" /\ sort.value = "desc"
        THEN [categories |-> Reverse(Sort("default", cats)), warnings |-> warned]
        ELSE IF sort.type = "function"
        THEN [categories |-> Sort(sort.value, cats), warnings |-> warned]
        ELSE [categories |-> Sort("default", cats),
              warnings |-> Append(warned, InvalidSortMessage(sort))]

\* getCategories(args, series): the returned array and the console output
getCategories(arg, ss, warned) ==
    LET sort == IF arg.type = "undefined"
                THEN [type |-> "string", value |-> "firstSeries"] ELSE arg
        cats == getUniqueDatasetValues(ss)
    IN  IF sort.type = "string" /\ sort.value = "firstSeries"
        THEN [categories |-> cats, warnings |-> warned]
        ELSE IF sort.type = "string" /\ sort.value = "asc"
        THEN [categories |-> Sort("default", cats), warnings |-> warned]
        ELSE IF sort.type = "string" /\ sort.value = "desc"
        THEN [categories |-> Reverse(Sort("default", cats)), warnings |-> warned]
        ELSE IF sort.type = "function"
        THEN [categories |-> Sort(sort.value, cats), warnings |-> warned]
        ELSE [categories |-> cats,
              warnings |-> Append(warned, InvalidSortMessage(sort))]

----------------------------------------------------------------------------
(* Inputs of getCategories *)

Names == {<<"b">>, <<"B">>, <<"1", "0">>}

Values == {1}

DataItems == [name : Names, value : Values]

\* the sequences over S of length at most n
SeqUpTo(S, n) == UNION {[1..k -> S] : k \in 0..n}

SeriesSet == [data : SeqUpTo(DataItems, MaxData)]

\* args.categoryAxisSort: omitted, a keyword, another string, null, or a
\* comparator function
SortArgs ==
    {[type |-> "undefined", value |-> ""], [type |-> "null", value |-> "null"]}
      \cup [type : {"string"}, value : {"firstSeries", "asc", "desc", "bogus", "ASC"}]
      \cup [type : {"function"}, value : Comparators]

InitCategories ==
    /\ pc = "start"
    /\ sortArg \in SortArgs
    /\ series \in SeqUpTo(SeriesSet, MaxSeries)
    /\ categories = <<>>
    /\ warnings = <<>>
    /\ IdleStyle
    /\ IdlePointer
    /\ IdlePlot
    /\ IdleLater

GetCategories ==
    /\ pc = "start"
    /\ pc' = "done"
    /\ LET r == getCategories(sortArg, series, warnings)
       IN  /\ categories' = r.categories
           /\ warnings' = r.warnings
    /\ UNCHANGED <<sortArg, series>>
    /\ UNCHANGED <<styleVars, pointerVars, plotVars>>
    /\ UNCHANGED laterVars

NextCategories == GetCategories

SpecCategories == InitCategories /\ [][NextCategories]_vars

\* the position of the first item named n among all data items
FirstSeen(n) ==
    LET all == AllNames(series)
    IN  CHOOSE i \in 1..Len(all) : all[i] = n /\ \A j \in 1..(i - 1) : all[j] # n

InvalidSort(arg) ==
    \/ arg.type = "null"
    \/ arg.type = "string" /\ arg.value \notin {"firstSeries", "asc", "desc"}

\* C5: with a categoryAxisSort that is no keyword and no function the call
\* returns, warns once, and yields every distinct name once in the order in
\* which the names are first encountered.
Thm_C5 ==
    (pc = "done" /\ InvalidSort(sortArg)) =>
        /\ Len(warnings) = 1
        /\ {categories[i] : i \in 1..Len(categories)}
             = {AllNames(series)[i] : i \in 1..Len(AllNames(series))}
        /\ \A i, j \in 1..Len(categories) :
               i < j => FirstSeen(categories[i]) < FirstSeen(categories[j])

\* "bogus" on the names b, B, b, 10 returns b, B, 10 with a warning
Wit_C5 ==
    /\ pc = "done"
    /\ sortArg = [type |-> "string", value |-> "bogus"]
    /\ AllNames(series) = <<<<"b">>, <<"B">>, <<"b">>, <<"1", "0">>>>
    /\ categories = <<<<"b">>, <<"B">>, <<"1", "0">>>>
    /\ Len(warnings) = 1

----------------------------------------------------------------------------
(* modifiers/bar-chart.js: addAxisPointer                                  *)
(*                                                                         *)
(* A layout is a record of integers; `nan` is the set of its fields whose  *)
(* value is NaN (such a field holds 0).  An absent argument is the string  *)
(* "undefined".  Resolved styles are records of the numeric box-model      *)
(* properties; colours, fonts and the other values that are only copied    *)
(* into the chart options are left out.                                    *)

\* args[`${axis}AxisPointer`]
PointerTypeArg(args, axis) ==
    IF axis = "x" THEN args.xAxisPointer ELSE args.yAxisPointer

\* args[`${axis}AxisPointerLabel`]
PointerLabelArg(args, axis) ==
    IF axis = "x" THEN args.xAxisPointerLabel ELSE args.yAxisPointerLabel

\* args[`${axis}AxisTooltip`]
TooltipArg(args, axis) ==
    IF axis = "x" THEN args.xAxisTooltip ELSE args.yAxisTooltip

\* args[`${axis}AxisFormatter`] is given
FormatterArg(args, axis) ==
    IF axis = "x" THEN args.xAxisFormatter ELSE args.yAxisFormatter

\* styles[`${axis}AxisPointer`], resolved
PointerStyleOf(styles, axis) ==
    IF axis = "x" THEN styles.xAxisPointer ELSE styles.yAxisPointer

\* styles[`${axis}AxisPointerLabel`], resolved
PointerLabelStyleOf(styles, axis) ==
    IF axis = "x" THEN styles.xAxisPointerLabel ELSE styles.yAxisPointerLabel

\* the early return without `type === 'none'`
pointerDisabledOnlyAbsent(type) == type = "undefined"

\* !type || type === 'none'
pointerDisabled(type) == type = "undefined" \/ type = "none"

\* args[`${name}Label`] ?? 'bottom'
pointerLabelPosition(args, axis) ==
    IF PointerLabelArg(args, axis) = "undefined"
    THEN "bottom" ELSE PointerLabelArg(args, axis)

\* args[`${axis}AxisTooltip`] ?? axis === 'x'
pointerTriggerTooltip(args, axis) ==
    IF TooltipArg(args, axis) = "undefined"
    THEN axis = "x" ELSE TooltipArg(args, axis) = "true"

\* a || b on two numbers: the first one that is not zero
FirstNonZero(a, b) == IF a # 0 THEN a ELSE b

\* config.axisPointer.lineStyle.width
pointerLineWidth(pointerStyle, axis) ==
    IF axis = "x"
    THEN FirstNonZero(pointerStyle.borderLeftWidth, pointerStyle.borderRightWidth)
    ELSE FirstNonZero(pointerStyle.borderTopWidth, pointerStyle.borderBottomWidth)

\* the size of the pointer label along the axis it is attached to
pointerLabelSize(axis, axisInfo, labelStyle) ==
    IF axis = "x"
    THEN axisInfo.height[1] + labelStyle.paddingTop + labelStyle.paddingBottom
           + labelStyle.borderTopWidth + labelStyle.borderBottomWidth
    ELSE axisInfo.width + labelStyle.paddingLeft + labelStyle.paddingRight
           + labelStyle.borderLeftWidth + labelStyle.borderRightWidth

\* the margins of the pointer label along the axis it is attached to
pointerLabelMargins(axis, labelStyle) ==
    IF axis = "x"
    THEN labelStyle.marginTop + labelStyle.marginBottom
    ELSE labelStyle.marginLeft + labelStyle.marginRight

\* the switch on labelPosition with a `right` case that forgets the margins
narrowLayoutRightNoMargins(layout, labelPosition, labelSize, labelMargins, labelStyle, axisInfo) ==
    CASE labelPosition = "top" ->
           IF axisInfo.height = Undefined
           THEN [layout EXCEPT !.innerHeight = @ - (labelSize + labelMargins),
                               !.innerY = 0,
                               !.nan = @ \cup {"innerY"}]
           ELSE [layout EXCEPT !.innerHeight = @ - (labelSize + labelMargins),
                               !.innerY = @ + (axisInfo.height[1] + labelMargins)]
      [] labelPosition = "right" ->
           [layout EXCEPT !.innerWidth = @ - labelSize]
      [] labelPosition = "bottom" ->
           [layout EXCEPT !.innerHeight = @ - labelStyle.marginTop]
      [] OTHER -> layout

\* the copy of the layout after the switch on labelPosition
narrowLayout(layout, labelPosition, labelSize, labelMargins, labelStyle, axisInfo) ==
    CASE labelPosition = "top" ->
           IF axisInfo.height = Undefined
           THEN [layout EXCEPT !.innerHeight = @ - (labelSize + labelMargins),
                               !.innerY = 0,
                               !.nan = @ \cup {"innerY"}]
           ELSE [layout EXCEPT !.innerHeight = @ - (labelSize + labelMargins),
                               !.innerY = @ + (axisInfo.height[1] + labelMargins)]
      [] labelPosition = "right" ->
           [layout EXCEPT !.innerWidth = @ - (labelSize + labelMargins)]
      [] labelPosition = "bottom" ->
           [layout EXCEPT !.innerHeight = @ - labelStyle.marginTop]
      [] OTHER -> layout

\* config.axisPointer.label.margin as set by the switch on labelPosition
pointerLabelMargin(layout, labelPosition, labelSize, labelStyle) ==
    CASE labelPosition = "top" ->
           Some(labelSize + labelStyle.marginTop - layout.innerHeight)
      [] labelPosition = "right" ->
           Some(labelSize - labelStyle.marginLeft - layout.innerWidth)
      [] labelPosition = "bottom" -> Some(labelStyle.marginTop)
      [] labelPosition = "left" -> Some(labelStyle.marginRight)
      [] OTHER -> Undefined

\* config.axisPointer.label before the switch: { show: false } for the
\* position 'none', the styled label otherwise (no `show` key)
pointerLabelConfig(labelPosition, hasFormatter, labelStyle) ==
    IF labelPosition = "none"
    THEN [show |-> "false", formatter |-> FALSE, borderWidth |-> Undefined,
          padding |-> Undefined, margin |-> Undefined]
    ELSE [show |-> "undefined", formatter |-> hasFormatter,
          borderWidth |-> Some(labelStyle.borderTopWidth),
          padding |-> <<labelStyle.paddingTop, labelStyle.paddingRight,
                        labelStyle.paddingBottom, labelStyle.paddingLeft>>,
          margin |-> Undefined]

\* addAxisPointer(context, layout, config, axisInfo, axis): the returned
\* layout and the config object after the call
addAxisPointer(args, styles, layout, config, axisInfo, axis) ==
    LET type == PointerTypeArg(args, axis)
        pointerStyle == PointerStyleOf(styles, axis)
        labelStyle == PointerLabelStyleOf(styles, axis)
        labelPosition == pointerLabelPosition(args, axis)
        labelSize == pointerLabelSize(axis, axisInfo, labelStyle)
        labelMargins == pointerLabelMargins(axis, labelStyle)
        label == [pointerLabelConfig(labelPosition, FormatterArg(args, axis), labelStyle)
                    EXCEPT !.margin =
                        pointerLabelMargin(layout, labelPosition, labelSize, labelStyle)]
        axisPointer ==
            [show |-> TRUE,
             type |-> type,
             triggerTooltip |-> pointerTriggerTooltip(args, axis),
             z |-> 0,
             lineStyle |-> IF type = "line"
                           THEN Some([width |-> pointerLineWidth(pointerStyle, axis)])
                           ELSE Undefined,
             shadowStyle |-> type = "shadow",
             label |-> label]
    IN  IF pointerDisabled(type)
        THEN [layout |-> layout, config |-> config]
        ELSE [layout |-> narrowLayout(layout, labelPosition, labelSize,
                                      labelMargins, labelStyle, axisInfo),
              config |-> [config EXCEPT !.axisPointer = Some(axisPointer)]]

----------------------------------------------------------------------------
(* Inputs of addAxisPointer *)

\* defaultStyles.xAxisPointerLabel: padding 4, margin 4, border 1px
XPointerLabelStyle ==
    [paddingTop |-> 4, paddingRight |-> 4, paddingBottom |-> 4, paddingLeft |-> 4,
     borderTopWidth |-> 1, borderRightWidth |-> 1,
     borderBottomWidth |-> 1, borderLeftWidth |-> 1,
     marginTop |-> 4, marginRight |-> 4, marginBottom |-> 4, marginLeft |-> 4]

\* defaultStyles.yAxisPointerLabel: padding 4, marginRight 4, border 1px
YPointerLabelStyle ==
    [paddingTop |-> 4, paddingRight |-> 4, paddingBottom |-> 4, paddingLeft |-> 4,
     borderTopWidth |-> 1, borderRightWidth |-> 1,
     borderBottomWidth |-> 1, borderLeftWidth |-> 1,
     marginTop |-> 0, marginRight |-> 4, marginBottom |-> 0, marginLeft |-> 0]

\* a caller's label style in which every side has its own value
CustomPointerLabelStyle ==
    [paddingTop |-> 1, paddingRight |-> 2, paddingBottom |-> 3, paddingLeft |-> 5,
     borderTopWidth |-> 1, borderRightWidth |-> 2,
     borderBottomWidth |-> 3, borderLeftWidth |-> 4,
     marginTop |-> 6, marginRight |-> 7, marginBottom |-> 8, marginLeft |-> 9]

PointerLabelStyles == {XPointerLabelStyle, YPointerLabelStyle, CustomPointerLabelStyle}

\* defaultStyles.xAxisPointer / yAxisPointer: border 'dashed 1px #555'
DefaultPointerStyle ==
    [borderTopWidth |-> 1, borderRightWidth |-> 1,
     borderBottomWidth |-> 1, borderLeftWidth |-> 1]

CustomPointerStyle ==
    [borderTopWidth |-> 0, borderRightWidth |-> 2,
     borderBottomWidth |-> 3, borderLeftWidth |-> 0]

PointerStyles == {DefaultPointerStyle, CustomPointerStyle}

\* a layout without border and padding, and one with both
PlainLayout ==
    [x |-> 0, y |-> 0, width |-> 400, height |-> 300,
     innerX |-> 0, innerY |-> 0, innerWidth |-> 400, innerHeight |-> 300,
     borderLeftWidth |-> 0, borderRightWidth |-> 0, nan |-> {}]

BoxedLayout ==
    [x |-> 10, y |-> 20, width |-> 200, height |-> 150,
     innerX |-> 13, innerY |-> 24, innerWidth |-> 193, innerHeight |-> 141,
     borderLeftWidth |-> 1, borderRightWidth |-> 2, nan |-> {}]

Layouts == {PlainLayout, BoxedLayout}

PointerTypes == {"undefined", "none", "line", "shadow"}

LabelPositions == {"undefined", "top", "right", "bottom", "left", "none"}

TooltipArgs == {"undefined", "true", "false"}

\* the axis info handed over by generatePlotConfig: computeXAxisInfo returns
\* a width and a height, computeYAxisInfo a width and no height
PointerAxisInfos(axis) ==
    IF axis = "x"
    THEN [width : {380}, height : {Some(0), Some(15), Some(29)}]
    ELSE [width : {8, 23, 37}, height : {Undefined}]

\* the args of a call: only the arguments of the axis are given
PointerArgs(axis, type, label, tooltip, formatter) ==
    [xAxisPointer |-> IF axis = "x" THEN type ELSE "undefined",
     yAxisPointer |-> IF axis = "y" THEN type ELSE "undefined",
     xAxisPointerLabel |-> IF axis = "x" THEN label ELSE "undefined",
     yAxisPointerLabel |-> IF axis = "y" THEN label ELSE "undefined",
     xAxisTooltip |-> IF axis = "x" THEN tooltip ELSE "undefined",
     yAxisTooltip |-> IF axis = "y" THEN tooltip ELSE "undefined",
     xAxisFormatter |-> axis = "x" /\ formatter,
     yAxisFormatter |-> axis = "y" /\ formatter]

\* context.styles of a call: both axes use the same pair of styles
PointerStylesArg(pointerStyle, labelStyle) ==
    [xAxisPointer |-> pointerStyle, yAxisPointer |-> pointerStyle,
     xAxisPointerLabel |-> labelStyle, yAxisPointerLabel |-> labelStyle]

EmptyConfig == [axisPointer |-> Undefined]

PointerInputs ==
    UNION {
        [axis : {axis},
         args : {PointerArgs(axis, type, label, tooltip, formatter) :
                    type \in PointerTypes, label \in LabelPositions,
                    tooltip \in TooltipArgs, formatter \in BOOLEAN},
         styles : {PointerStylesArg(ps, ls) :
                    ps \in PointerStyles, ls \in PointerLabelStyles},
         layout : Layouts,
         config : {EmptyConfig},
         axisInfo : PointerAxisInfos(axis)] : axis \in {"x", "y"}}

InitPointer ==
    /\ pc = "start"
    /\ ptrIn \in PointerInputs
    /\ ptrOut = <<>>
    /\ IdleStyle
    /\ IdleCategories
    /\ IdlePlot
    /\ IdleLater

AddAxisPointer ==
    /\ pc = "start"
    /\ pc' = "done"
    /\ ptrOut' = addAxisPointer(ptrIn.args, ptrIn.styles, ptrIn.layout,
                                ptrIn.config, ptrIn.axisInfo, ptrIn.axis)
    /\ UNCHANGED ptrIn
    /\ UNCHANGED <<styleVars, categoryVars, plotVars>>
    /\ UNCHANGED laterVars

NextPointer == AddAxisPointer

SpecPointer == InitPointer /\ [][NextPointer]_vars

\* the inner rectangle of a layout
InnerRect(layout) ==
    <<layout.innerX, layout.innerY, layout.innerWidth, layout.innerHeight,
      layout.nan>>

PointerEnabled == PointerTypeArg(ptrIn.args, ptrIn.axis) \in {"line", "shadow"}

\* the label style of the observed call
PtrLabelStyle == PointerLabelStyleOf(ptrIn.styles, ptrIn.axis)

\* the space the pointer label takes along its axis: the axis extent, the
\* label's padding and border, and the label's margins
PtrReserve ==
    LET ls == PtrLabelStyle
    IN  IF ptrIn.axis = "x"
        THEN ptrIn.axisInfo.height[1] + ls.paddingTop + ls.paddingBottom
               + ls.borderTopWidth + ls.borderBottomWidth
               + ls.marginTop + ls.marginBottom
        ELSE ptrIn.axisInfo.width + ls.paddingLeft + ls.paddingRight
               + ls.borderLeftWidth + ls.borderRightWidth
               + ls.marginLeft + ls.marginRight

\* C6: without a pointer type, or with the type 'none', addAxisPointer
\* returns the layout it was given and leaves config as it was; with the
\* label position 'none' the returned layout has the inner rectangle of the
\* given layout.
Thm_C6 ==
    pc = "done" =>
        /\ PointerTypeArg(ptrIn.args, ptrIn.axis) \in {"undefined", "none"} =>
               /\ ptrOut.layout = ptrIn.layout
               /\ ptrOut.config = ptrIn.config
        /\ PointerLabelArg(ptrIn.args, ptrIn.axis) = "none" =>
               InnerRect(ptrOut.layout) = InnerRect(ptrIn.layout)

\* a line pointer on the Y axis whose label position is 'none': the pointer
\* is configured with a hidden label and the layout is the given one
Wit_C6 ==
    /\ pc = "done"
    /\ ptrIn.axis = "y"
    /\ ptrIn.args.yAxisPointer = "line"
    /\ ptrIn.args.yAxisPointerLabel = "none"
    /\ ptrIn.layout = BoxedLayout
    /\ ptrOut.config.axisPointer # Undefined
    /\ ptrOut.config.axisPointer[1].label.show = "false"
    /\ ptrOut.layout = BoxedLayout

Cex_C8 ==
    (pc = "done" /\ PointerEnabled
        /\ PointerLabelArg(ptrIn.args, ptrIn.axis) = "undefined") =>
        LET ls == PtrLabelStyle
            label == ptrOut.config.axisPointer[1].label
        IN  /\ ptrIn.axis = "x" =>
                   /\ label.margin = Some(ls.marginTop)
                   /\ ptrOut.layout.innerHeight
                        = ptrIn.layout.innerHeight - ls.marginTop
            /\ ptrIn.axis = "y" =>
                   /\ label.margin = Some(ls.marginRight)
                   /\ InnerRect(ptrOut.layout) = InnerRect(ptrIn.layout)

----------------------------------------------------------------------------
(* utils/layout/compute-text-metrics.js and compute-max-text-metrics.js    *)
(* are not part of the sources at hand; they are modelled from the         *)
(* specification of the text metrics service: a text is as wide as its     *)
(* characters, and a text wider than maxWidth wraps onto the least number  *)
(* of lines that fit.                                                      *)

\* the width of one character and the height of one line, in pixels
CharWidth == 7

LineHeight == 14

Inf == [kind |-> "inf", chars |-> <<>>, num |-> 0, den |-> 1]

NegInf == [kind |-> "ninf", chars |-> <<>>, num |-> 0, den |-> 1]

\* a / b on two integers as JavaScript computes it
JsDiv(a, b) ==
    IF b = 0 THEN (IF a = 0 THEN NaN ELSE IF a > 0 THEN Inf ELSE NegInf)
    ELSE IF b < 0 THEN Num(-a, -b)
    ELSE Num(a, b)

\* the least integer that is at least a / b, for b > 0
CeilDiv(a, b) == -((-a) \div b)

\* the integer a whole "num" value denotes
IntOf(v) == v.num \div v.den

NoMaxWidth == [kind |-> "undefined", chars |-> <<>>, num |-> 0, den |-> 1]

\* whether the width w exceeds maxWidth (no comparison with NaN holds)
Exceeds(w, maxWidth) ==
    \/ maxWidth.kind = "ninf"
    \/ maxWidth.kind = "num" /\ w * maxWidth.den > maxWidth.num

\* computeTextMetrics(text, style, maxWidth)
computeTextMetrics(text, maxWidth) ==
    LET w == Len(text) * CharWidth
        wraps == /\ Exceeds(w, maxWidth)
                 /\ maxWidth.kind = "num"
                 /\ maxWidth.num > 0
        lineCount == IF wraps THEN CeilDiv(w * maxWidth.den, maxWidth.num) ELSE 1
    IN  [width |-> IF wraps THEN maxWidth ELSE Num(w, 1),
         height |-> LineHeight * lineCount,
         fontHeight |-> LineHeight,
         lineCount |-> lineCount]

ZeroMetrics ==
    [width |-> Num(0, 1), height |-> 0, fontHeight |-> LineHeight, lineCount |-> 0]

\* whether the value a is greater than the value b (both "num")
NumGreater(a, b) == a.num * b.den > b.num * a.den

\* computeMaxTextMetrics(labels, style, maxWidth): the metrics of the widest
\* label, the first one among equally wide labels
RECURSIVE computeMaxTextMetrics(_, _)
computeMaxTextMetrics(labels, maxWidth) ==
    IF labels = <<>> THEN ZeroMetrics
    ELSE LET rest == computeMaxTextMetrics(SubSeq(labels, 1, Len(labels) - 1), maxWidth)
             last == computeTextMetrics(labels[Len(labels)], maxWidth)
         IN  IF Len(labels) = 1 \/ NumGreater(last.width, rest.width)
             THEN last ELSE rest

----------------------------------------------------------------------------
(* modifiers/bar-chart.js: computeYAxisInfo, computeXAxisInfo and the axis *)
(* and grid part of generatePlotConfig                                     *)

\* computeYAxisInfo(style, labels, maxValue); LineHeight is even, so the
\* half of the top label's height is an integer
computeYAxisInfo(axisStyle, labels, maxValue) ==
    LET labelMetrics == computeMaxTextMetrics(labels, NoMaxWidth)
        topLabelMetrics == computeTextMetrics(maxValue, NoMaxWidth)
    IN  [width |-> IntOf(labelMetrics.width) + axisStyle.marginLeft
                     + axisStyle.marginRight,
         height |-> Undefined,
         labelMetrics |-> labelMetrics,
         heightOverflow |-> topLabelMetrics.height \div 2]

\* Math.min(args.categoryAxisMaxLabelCount ?? labels.length, labels.length)
maxLabelCountOf(args, labels) ==
    LET m == IF args.categoryAxisMaxLabelCount = Undefined
             THEN Len(labels) ELSE args.categoryAxisMaxLabelCount[1]
    IN  IF m < Len(labels) THEN m ELSE Len(labels)

\* computeXAxisInfo that does not net out the width of the Y axis
computeXAxisInfoFullWidth(args, layout, axisStyle, labels, yAxisInfo, isHorizontal) ==
    LET maxLabelCount == maxLabelCountOf(args, labels)
        width == layout.innerWidth
                   - layout.borderLeftWidth - layout.borderRightWidth
        lineWidth == IF isHorizontal THEN 0 ELSE 1
        maxLabelWidth == JsDiv(width, IF isHorizontal THEN 10 ELSE maxLabelCount)
        labelMetrics == computeMaxTextMetrics(labels, maxLabelWidth)
    IN  [width |-> width,
         height |-> Some(labelMetrics.height + axisStyle.marginTop
                           + axisStyle.marginBottom + lineWidth),
         labelMetrics |-> labelMetrics,
         maxLabelWidth |-> maxLabelWidth]

\* computeXAxisInfo(args, layout, style, labels, yAxisInfo, isHorizontal)
computeXAxisInfo(args, layout, axisStyle, labels, yAxisInfo, isHorizontal) ==
    LET maxLabelCount == maxLabelCountOf(args, labels)
        width == layout.innerWidth - yAxisInfo.width
                   - layout.borderLeftWidth - layout.borderRightWidth
        lineWidth == IF isHorizontal THEN 0 ELSE 1
        maxLabelWidth == JsDiv(width, IF isHorizontal THEN 10 ELSE maxLabelCount)
        labelMetrics == computeMaxTextMetrics(labels, maxLabelWidth)
    IN  [width |-> width,
         height |-> Some(labelMetrics.height + axisStyle.marginTop
                           + axisStyle.marginBottom + lineWidth),
         labelMetrics |-> labelMetrics,
         maxLabelWidth |-> maxLabelWidth]

\* generatePlotConfig whose X axis is sized before the Y axis pointer has
\* taken its space
generatePlotConfigEarlyXAxis(in) ==
    LET args == in.args
        styles == in.styles
        isHorizontal == args.orientation = "horizontal"
        yAxisInfo == computeYAxisInfo(styles.yAxis,
                        IF isHorizontal THEN in.categories ELSE in.valueTexts,
                        in.maxValue)
        y == addAxisPointer(args, styles, in.layout, EmptyConfig, yAxisInfo, "y")
        xAxisInfo == computeXAxisInfo(args, in.layout, styles.xAxis,
                        IF isHorizontal THEN in.valueTexts ELSE in.categories,
                        yAxisInfo, isHorizontal)
        x == addAxisPointer(args, styles, y.layout, EmptyConfig, xAxisInfo, "x")
        layout == x.layout
    IN  [yAxisInfo |-> yAxisInfo,
         layoutY |-> y.layout,
         xAxisInfo |-> xAxisInfo,
         layout |-> layout,
         yAxisConfig |-> y.config,
         xAxisConfig |-> x.config,
         grid |-> [x |-> layout.innerX + yAxisInfo.width - 1,
                   y |-> layout.innerY + yAxisInfo.heightOverflow,
                   width |-> xAxisInfo.width,
                   height |-> layout.innerHeight - xAxisInfo.height[1]
                                - yAxisInfo.heightOverflow,
                   nan |-> IF "innerY" \in layout.nan THEN {"y"} ELSE {}]]

\* generatePlotConfig from "Configure the Y axis" on: the two axis infos,
\* the layout after each pointer, the pointer configs and the grid.  The
\* categories, the value texts and the maximum value come from the data
\* analysis at the start of the method.
generatePlotConfig(in) ==
    LET args == in.args
        styles == in.styles
        isHorizontal == args.orientation = "horizontal"
        yAxisInfo == computeYAxisInfo(styles.yAxis,
                        IF isHorizontal THEN in.categories ELSE in.valueTexts,
                        in.maxValue)
        y == addAxisPointer(args, styles, in.layout, EmptyConfig, yAxisInfo, "y")
        xAxisInfo == computeXAxisInfo(args, y.layout, styles.xAxis,
                        IF isHorizontal THEN in.valueTexts ELSE in.categories,
                        yAxisInfo, isHorizontal)
        x == addAxisPointer(args, styles, y.layout, EmptyConfig, xAxisInfo, "x")
        layout == x.layout
    IN  [yAxisInfo |-> yAxisInfo,
         layoutY |-> y.layout,
         xAxisInfo |-> xAxisInfo,
         layout |-> layout,
         yAxisConfig |-> y.config,
         xAxisConfig |-> x.config,
         grid |-> [x |-> layout.innerX + yAxisInfo.width - 1,
                   y |-> layout.innerY + yAxisInfo.heightOverflow,
                   width |-> xAxisInfo.width,
                   height |-> layout.innerHeight - xAxisInfo.height[1]
                                - yAxisInfo.heightOverflow,
                   nan |-> IF "innerY" \in layout.nan THEN {"y"} ELSE {}]]

----------------------------------------------------------------------------
(* Inputs of generatePlotConfig *)

\* defaultStyles.xAxis: marginTop 8
XAxisStyle ==
    [marginTop |-> 8, marginRight |-> 0, marginBottom |-> 0, marginLeft |-> 0]

\* defaultStyles.yAxis: margin 8
YAxisStyle ==
    [marginTop |-> 8, marginRight |-> 8, marginBottom |-> 8, marginLeft |-> 8]

PlotStyles ==
    {[xAxis |-> XAxisStyle, yAxis |-> YAxisStyle,
      xAxisPointer |-> DefaultPointerStyle, yAxisPointer |-> DefaultPointerStyle,
      xAxisPointerLabel |-> XPointerLabelStyle,
      yAxisPointerLabel |-> YPointerLabelStyle]}

PlotNames == {<<"a">>, <<"b", "b", "b">>}

PlotValueTexts == {<<"5">>, <<"2", "5", "0">>}

PlotMaxValues == {<<"2", "5", "0">>}

\* the documented label positions of each axis, and the omitted one
XLabelPositions == {"undefined", "bottom", "top", "none"}

YLabelPositions == {"undefined", "left", "right", "none"}

PlotPointerTypes == {"undefined", "line"}

MaxLabelCounts == {Undefined, Some(0), Some(1), Some(3)}

PlotArgs ==
    [xAxisPointer : PlotPointerTypes,
     yAxisPointer : PlotPointerTypes,
     xAxisPointerLabel : XLabelPositions,
     yAxisPointerLabel : YLabelPositions,
     xAxisTooltip : {"undefined"},
     yAxisTooltip : {"undefined"},
     xAxisFormatter : {FALSE},
     yAxisFormatter : {FALSE},
     categoryAxisMaxLabelCount : MaxLabelCounts,
     orientation : {"undefined", "horizontal"}]

\* one value text per category
PlotInputs ==
    UNION {
        [args : PlotArgs,
         styles : PlotStyles,
         layout : Layouts,
         categories : [1..n -> PlotNames],
         valueTexts : [1..n -> PlotValueTexts],
         maxValue : PlotMaxValues] : n \in 0..MaxCats}

InitPlot ==
    /\ pc = "start"
    /\ plotIn \in PlotInputs
    /\ plotOut = <<>>
    /\ IdleStyle
    /\ IdleCategories
    /\ IdlePointer
    /\ IdleLater

GeneratePlotConfig ==
    /\ pc = "start"
    /\ pc' = "done"
    /\ plotOut' = generatePlotConfig(plotIn)
    /\ UNCHANGED plotIn
    /\ UNCHANGED <<styleVars, categoryVars, pointerVars>>
    /\ UNCHANGED laterVars

NextPlot == GeneratePlotConfig

SpecPlot == InitPlot /\ [][NextPlot]_vars

PlotHorizontal == plotIn.args.orientation = "horizontal"

\* the labels of the X axis of a call
XLabelsOf(in) ==
    IF in.args.orientation = "horizontal" THEN in.valueTexts ELSE in.categories

\* the calls that differ from `in` at most in the labels of the Y axis
YLabelVariants(in) ==
    IF in.args.orientation = "horizontal"
    THEN {[in EXCEPT !.categories = l] : l \in [1..Len(in.categories) -> PlotNames]}
    ELSE {[in EXCEPT !.valueTexts = l] : l \in [1..Len(in.valueTexts) -> PlotValueTexts]}

\* the calls that differ from `in` at most in the labels of the X axis
XLabelVariants(in) ==
    IF in.args.orientation = "horizontal"
    THEN {[in EXCEPT !.valueTexts = l] : l \in [1..Len(in.valueTexts) -> PlotValueTexts]}
    ELSE {[in EXCEPT !.categories = l] : l \in [1..Len(in.categories) -> PlotNames]}

\* C9: the X axis width nets out the Y axis width, so a run that differs
\* only in the Y axis labels and gets another Y axis width gets another X
\* axis width, while a run that differs only in the X axis labels gets the
\* same Y axis info.
Thm_C9 ==
    pc = "done" =>
        /\ plotOut.xAxisInfo.width
             = plotOut.layoutY.innerWidth - plotOut.yAxisInfo.width
                 - plotOut.layoutY.borderLeftWidth
                 - plotOut.layoutY.borderRightWidth
        /\ \A other \in YLabelVariants(plotIn) :
               LET o == generatePlotConfig(other)
               IN  o.yAxisInfo.width # plotOut.yAxisInfo.width =>
                       o.xAxisInfo.width # plotOut.xAxisInfo.width
        /\ \A other \in XLabelVariants(plotIn) :
               generatePlotConfig(other).yAxisInfo = plotOut.yAxisInfo

\* a vertical plot of one category whose value text is "250": the Y axis
\* is 3 * 7 + 16 = 37 wide and the X axis 400 - 37; with the value text "5"
\* the X axis is 400 - 23 wide
Wit_C9 ==
    /\ pc = "done"
    /\ ~PlotHorizontal
    /\ plotIn.layout = PlainLayout
    /\ plotIn.args.yAxisPointer = "undefined"
    /\ plotIn.categories = <<<<"a">>>>
    /\ plotIn.valueTexts = <<<<"2", "5", "0">>>>
    /\ plotOut.yAxisInfo.width = 37
    /\ plotOut.xAxisInfo.width = 363
    /\ generatePlotConfig([plotIn EXCEPT !.valueTexts = <<<<"5">>>>]).xAxisInfo.width = 377

\* C10: maxLabelWidth is the remaining width divided by the number of
\* categories shown (the lesser of categoryAxisMaxLabelCount and the label
\* count) on a category X axis and by 10 on a value X axis, and the divisor
\* is never zero.
Cex_C10 ==
    pc = "done" =>
        LET n == Len(XLabelsOf(plotIn))
            m == plotIn.args.categoryAxisMaxLabelCount
            shown == IF m # Undefined /\ m[1] < n THEN m[1] ELSE n
            divisor == IF PlotHorizontal THEN 10 ELSE shown
        IN  /\ divisor # 0
            /\ plotOut.xAxisInfo.maxLabelWidth.kind = "num"
            /\ NumEq(plotOut.xAxisInfo.maxLabelWidth,
                     Num(plotOut.xAxisInfo.width, divisor))

----------------------------------------------------------------------------
(* modifiers/bar-chart.js: valueAxisConfig.max and                         *)
(* categoryAxisConfig.axisLabel.interval of generatePlotConfig             *)
(*                                                                         *)
(* An argument that is a number, a string or omitted is a record           *)
(* [type, text, number].                                                   *)

JsUndefined == [type |-> "undefined", text |-> "", number |-> 0]

JsString(t) == [type |-> "string", text |-> t, number |-> 0]

JsNumber(n) == [type |-> "number", text |-> "", number |-> n]

\* ToBoolean of such an argument
Truthy(v) ==
    \/ v.type = "string" /\ v.text # ""
    \/ v.type = "number" /\ v.number # 0

\* valueAxisConfig.max
valueAxisConfigMax(valueAxisScale, valueAxisMax, dataMaxValue) ==
    IF valueAxisScale = "shared"
    THEN IF Truthy(valueAxisMax) /\ valueAxisMax # JsString("dataMax")
         THEN valueAxisMax
         ELSE dataMaxValue
    ELSE IF valueAxisMax # JsString("dataMaxRoundedUp")
         THEN valueAxisMax
         ELSE JsUndefined

\* categoryAxisConfig.axisLabel.interval with Math.floor for Math.ceil
categoryAxisIntervalFloor(categoryAxisMaxLabelCount, cats) ==
    IF /\ categoryAxisMaxLabelCount # Undefined
       /\ categoryAxisMaxLabelCount[1] # 0
       /\ Len(cats) > categoryAxisMaxLabelCount[1]
    THEN (Len(cats) \div categoryAxisMaxLabelCount[1]) - 1
    ELSE 0

\* categoryAxisConfig.axisLabel.interval
categoryAxisInterval(categoryAxisMaxLabelCount, cats) ==
    IF /\ categoryAxisMaxLabelCount # Undefined
       /\ categoryAxisMaxLabelCount[1] # 0
       /\ Len(cats) > categoryAxisMaxLabelCount[1]
    THEN CeilDiv(Len(cats), categoryAxisMaxLabelCount[1]) - 1
    ELSE 0

\* the two axis configs of a plot, as far as they depend on the arguments
generateAxisConfigs(in) ==
    [max |-> valueAxisConfigMax(in.args.valueAxisScale, in.args.valueAxisMax,
                                in.data.maxValue),
     interval |-> categoryAxisInterval(in.args.categoryAxisMaxLabelCount,
                                       in.categories)]

----------------------------------------------------------------------------
(* Inputs of the axis configs *)

\* largest number of categories of an axis
MaxAxisCategories == 6
\* largest categoryAxisMaxLabelCount
MaxLabelCount == 6

AxisScales == {"undefined", "shared", "separate"}

ValueAxisMaxArgs ==
    {JsUndefined, JsString("dataMax"), JsString("dataMaxRoundedUp"),
     JsNumber(0), JsNumber(5), JsNumber(300)}

\* createContextData sets data.maxValue only for a shared value axis
DataMaxValues(scale) == IF scale = "shared" THEN {JsNumber(250)} ELSE {JsUndefined}

AxisInputs ==
    UNION {
        [args : [valueAxisScale : {scale},
                 valueAxisMax : ValueAxisMaxArgs,
                 categoryAxisMaxLabelCount :
                     {Undefined} \cup {Some(m) : m \in 0..MaxLabelCount}],
         data : [maxValue : DataMaxValues(scale)],
         categories : {[i \in 1..n |-> <<"a">>] : n \in 0..MaxAxisCategories}]
        : scale \in AxisScales}

InitAxes ==
    /\ pc = "start"
    /\ axisIn \in AxisInputs
    /\ axisOut = <<>>
    /\ IdleCore
    /\ IdleCells
    /\ IdleObjects
    /\ IdleChart

GenerateAxisConfigs ==
    /\ pc = "start"
    /\ pc' = "done"
    /\ axisOut' = generateAxisConfigs(axisIn)
    /\ UNCHANGED axisIn
    /\ UNCHANGED <<coreVars, cellVars, objectVars, chartVars>>

NextAxes == GenerateAxisConfigs

SpecAxes == InitAxes /\ [][NextAxes]_vars

\* the number of labels shown among n categories when a label is shown at
\* every (i + 1)-th category, starting from the first
LabelsShown(n, i) == Cardinality({k \in 0..(n - 1) : k % (i + 1) = 0})

\* C11: for a positive categoryAxisMaxLabelCount m and n categories the
\* interval is ceil(n / m) - 1 when n > m and 0 otherwise, and the labels
\* shown at that interval are at most m, and all n of them when n <= m.
Thm_C11 ==
    (/\ pc = "done"
     /\ axisIn.args.categoryAxisMaxLabelCount # Undefined
     /\ axisIn.args.categoryAxisMaxLabelCount[1] > 0) =>
        LET n == Len(axisIn.categories)
            m == axisIn.args.categoryAxisMaxLabelCount[1]
            i == axisOut.interval
        IN  /\ i = (IF n > m THEN ((n + m - 1) \div m) - 1 ELSE 0)
            /\ LabelsShown(n, i) <= m
            /\ n <= m => LabelsShown(n, i) = n

\* five categories with at most two labels: every third one is labelled
Wit_C11 ==
    /\ pc = "done"
    /\ Len(axisIn.categories) = 5
    /\ axisIn.args.categoryAxisMaxLabelCount = Some(2)
    /\ axisOut.interval = 2
    /\ LabelsShown(5, axisOut.interval) = 2

\* C12: a numeric valueAxisMax is the axis max, "dataMax" gives the data
\* maximum (the shared maximum, or the keyword the chart resolves for a
\* separate axis), and "dataMaxRoundedUp" or no value gives the shared
\* maximum on a shared axis and no max on a separate one.
Cex_C12 ==
    pc = "done" =>
        LET a == axisIn.args.valueAxisMax
            shared == axisIn.args.valueAxisScale = "shared"
        IN  /\ a.type = "number" => axisOut.max = a
            /\ a = JsString("dataMax") =>
                   axisOut.max = (IF shared THEN axisIn.data.maxValue ELSE a)
            /\ a \in {JsUndefined, JsString("dataMaxRoundedUp")} =>
                   /\ axisOut.max # JsString("dataMaxRoundedUp")
                   /\ axisOut.max = (IF shared THEN axisIn.data.maxValue
                                     ELSE JsUndefined)

----------------------------------------------------------------------------
(* utils/layout/layout-cells.js: layoutCells                               *)
(*                                                                         *)
(* The coordinates of a cell are rational numbers ("num" values): the      *)
(* rectangle is divided into equal parts whatever its size.                *)

\* a + b, a * b and a < b on "num" values
NumAdd(a, b) == Num(a.num * b.den + b.num * a.den, a.den * b.den)

NumMul(a, b) == Num(a.num * b.num, a.den * b.den)

NumLess(a, b) == a.num * b.den < b.num * a.den

\* the inner content rectangle of a styled rectangle: the outer one minus
\* the border and the padding of each side
innerBox(x, y, width, height, cellStyle) ==
    LET left == cellStyle.borderLeftWidth + cellStyle.paddingLeft
        right == cellStyle.borderRightWidth + cellStyle.paddingRight
        top == cellStyle.borderTopWidth + cellStyle.paddingTop
        bottom == cellStyle.borderBottomWidth + cellStyle.paddingBottom
    IN  [innerX |-> NumAdd(x, Num(left, 1)),
         innerY |-> NumAdd(y, Num(top, 1)),
         innerWidth |-> NumAdd(width, Num(-(left + right), 1)),
         innerHeight |-> NumAdd(height, Num(-(top + bottom), 1))]

\* layoutCells that always lays out maxColumns columns
layoutCellsMaxColumns(outer, count, maxColumns, cellStyle) ==
    LET columns == maxColumns
        rows == CeilDiv(count, columns)
        width == Num(outer.width, columns)
        height == Num(outer.height, rows)
    IN  [i \in 1..count |->
            LET column == (i - 1) % columns
                row == (i - 1) \div columns
                x == Num(outer.x * columns + column * outer.width, columns)
                y == Num(outer.y * rows + row * outer.height, rows)
            IN  [index |-> i - 1, row |-> row, column |-> column,
                 x |-> x, y |-> y, width |-> width, height |-> height,
                 inner |-> innerBox(x, y, width, height, cellStyle)]]

\* layoutCells: `count` cells in min(count, maxColumns) columns and
\* ceil(count / columns) rows of equal size, filled row by row
layoutCells(outer, count, maxColumns, cellStyle) ==
    LET columns == IF count < maxColumns THEN count ELSE maxColumns
        rows == CeilDiv(count, columns)
        width == Num(outer.width, columns)
        height == Num(outer.height, rows)
    IN  [i \in 1..count |->
            LET column == (i - 1) % columns
                row == (i - 1) \div columns
                x == Num(outer.x * columns + column * outer.width, columns)
                y == Num(outer.y * rows + row * outer.height, rows)
            IN  [index |-> i - 1, row |-> row, column |-> column,
                 x |-> x, y |-> y, width |-> width, height |-> height,
                 inner |-> innerBox(x, y, width, height, cellStyle)]]

----------------------------------------------------------------------------
(* Inputs of layoutCells *)

\* largest number of cells
MaxCells == 6
\* largest maxColumns
MaxColumns == 4

OuterRects ==
    {[x |-> 0, y |-> 0, width |-> 400, height |-> 300],
     [x |-> 10, y |-> 20, width |-> 200, height |-> 150]}

PlainCellStyle ==
    [borderTopWidth |-> 0, borderRightWidth |-> 0, borderBottomWidth |-> 0,
     borderLeftWidth |-> 0, paddingTop |-> 0, paddingRight |-> 0,
     paddingBottom |-> 0, paddingLeft |-> 0]

BoxedCellStyle ==
    [borderTopWidth |-> 1, borderRightWidth |-> 1, borderBottomWidth |-> 1,
     borderLeftWidth |-> 1, paddingTop |-> 4, paddingRight |-> 2,
     paddingBottom |-> 4, paddingLeft |-> 2]

CellInputs ==
    [outer : OuterRects,
     count : 1..MaxCells,
     maxColumns : 1..MaxColumns,
     cellStyle : {PlainCellStyle, BoxedCellStyle}]

InitCells ==
    /\ pc = "start"
    /\ cellsIn \in CellInputs
    /\ cellsOut = <<>>
    /\ IdleCore
    /\ IdleAxes
    /\ IdleObjects
    /\ IdleChart

LayoutCells ==
    /\ pc = "start"
    /\ pc' = "done"
    /\ cellsOut' = layoutCells(cellsIn.outer, cellsIn.count,
                               cellsIn.maxColumns, cellsIn.cellStyle)
    /\ UNCHANGED cellsIn
    /\ UNCHANGED <<coreVars, axisVars, objectVars, chartVars>>

NextCells == LayoutCells

SpecCells == InitCells /\ [][NextCells]_vars

CellColumns == IF cellsIn.count < cellsIn.maxColumns THEN cellsIn.count ELSE cellsIn.maxColumns

CellRows == (cellsIn.count + CellColumns - 1) \div CellColumns

\* two cells share more than an edge
CellsOverlap(a, b) ==
    /\ NumLess(a.x, NumAdd(b.x, b.width))
    /\ NumLess(b.x, NumAdd(a.x, a.width))
    /\ NumLess(a.y, NumAdd(b.y, b.height))
    /\ NumLess(b.y, NumAdd(a.y, a.height))

\* a cell lies within the outer rectangle
CellInside(c, outer) ==
    /\ ~NumLess(c.x, Num(outer.x, 1))
    /\ ~NumLess(c.y, Num(outer.y, 1))
    /\ ~NumLess(Num(outer.x + outer.width, 1), NumAdd(c.x, c.width))
    /\ ~NumLess(Num(outer.y + outer.height, 1), NumAdd(c.y, c.height))

\* the sum of the areas of the first k cells
RECURSIVE CellAreas(_, _)
CellAreas(cells, k) ==
    IF k = 0 THEN Num(0, 1)
    ELSE NumAdd(CellAreas(cells, k - 1), NumMul(cells[k].width, cells[k].height))

\* N cells in min(N, C) columns and ceil(N / min(N, C)) rows, all of the
\* size of one grid slot, inside the outer rectangle and not overlapping
CellGrid ==
    /\ Len(cellsOut) = cellsIn.count
    /\ {cellsOut[i].column : i \in 1..Len(cellsOut)} = 0..(CellColumns - 1)
    /\ {cellsOut[i].row : i \in 1..Len(cellsOut)} = 0..(CellRows - 1)
    /\ \A i \in 1..Len(cellsOut) :
           /\ NumEq(cellsOut[i].width, Num(cellsIn.outer.width, CellColumns))
           /\ NumEq(cellsOut[i].height, Num(cellsIn.outer.height, CellRows))
           /\ CellInside(cellsOut[i], cellsIn.outer)
    /\ \A i, j \in 1..Len(cellsOut) :
           i # j => ~CellsOverlap(cellsOut[i], cellsOut[j])

\* the cells, which do not overlap, cover the whole outer rectangle
CellsCoverOuter ==
    NumEq(CellAreas(cellsOut, Len(cellsOut)),
          Num(cellsIn.outer.width * cellsIn.outer.height, 1))

\* C13 as stated: N cells in min(N, C) columns and ceil(N / min(N, C)) rows
\* of equal size that do not overlap and whose union is the outer rectangle.
Cex_C13 == pc = "done" => (CellGrid /\ CellsCoverOuter)

\* C13: N cells in min(N, C) columns and ceil(N / min(N, C)) rows of equal
\* size that do not overlap; they fill the grid row by row from the top
\* left, so they cover the outer rectangle exactly when N fills the last
\* row, and otherwise leave rows * columns - N slots of the last row empty.
Thm_C13 ==
    pc = "done" =>
        /\ CellGrid
        /\ \A i \in 1..Len(cellsOut) :
               /\ cellsOut[i].column = (i - 1) % CellColumns
               /\ cellsOut[i].row = (i - 1) \div CellColumns
               /\ NumEq(cellsOut[i].x,
                        Num(cellsIn.outer.x * CellColumns
                              + cellsOut[i].column * cellsIn.outer.width,
                            CellColumns))
               /\ NumEq(cellsOut[i].y,
                        Num(cellsIn.outer.y * CellRows
                              + cellsOut[i].row * cellsIn.outer.height,
                            CellRows))
        /\ CellsCoverOuter <=> (cellsIn.count = CellRows * CellColumns)
        /\ NumEq(CellAreas(cellsOut, Len(cellsOut)),
                 Num(cellsIn.count * cellsIn.outer.width * cellsIn.outer.height,
                     CellRows * CellColumns))

\* 400 x 300 with three cells and at most two columns: two columns 200
\* wide, two rows 150 high, one cell in the last row
Wit_C13 ==
    /\ pc = "done"
    /\ cellsIn.outer = [x |-> 0, y |-> 0, width |-> 400, height |-> 300]
    /\ cellsIn.count = 3
    /\ cellsIn.maxColumns = 2
    /\ Len(cellsOut) = 3
    /\ cellsOut[3].row = 1
    /\ cellsOut[3].column = 0
    /\ NumEq(cellsOut[3].width, Num(200, 1))
    /\ NumEq(cellsOut[3].y, Num(150, 1))
    /\ ~CellsCoverOuter

\* the distinct names of the data items of the series
NameSet == {AllNames(series)[i] : i \in 1..Len(AllNames(series))}

\* C14: with a valid categoryAxisSort the call returns every distinct name
\* exactly once and does not warn; the names are in first-seen order for
\* "firstSeries" and for an omitted value, in ascending order of their code
\* units for "asc", in descending order (the reverse of the "asc" result) for
\* "desc", and for a function no name comes after one the comparator puts
\* it before.
Thm_C14 ==
    (pc = "done" /\ ~InvalidSort(sortArg)) =>
        /\ {categories[i] : i \in 1..Len(categories)} = NameSet
        /\ Len(categories) = Cardinality(NameSet)
        /\ warnings = <<>>
        /\ \A i, j \in 1..Len(categories) :
               i < j =>
                   CASE sortArg.type = "undefined" ->
                            FirstSeen(categories[i]) < FirstSeen(categories[j])
                     [] sortArg.type = "function" ->
                            ~Before(sortArg.value, categories[j], categories[i])
                     [] sortArg.value = "firstSeries" ->
                            FirstSeen(categories[i]) < FirstSeen(categories[j])
                     [] sortArg.value = "asc" ->
                            StringLess(categories[i], categories[j])
                     [] sortArg.value = "desc" ->
                            StringLess(categories[j], categories[i])
        /\ (sortArg.type = "string" /\ sortArg.value = "desc") =>
               categories
                 = Reverse(getCategories([type |-> "string", value |-> "asc"],
                                          series, <<>>).categories)

\* "desc" on the names b, 10, b, B returns b, B, 10
Wit_C14 ==
    /\ pc = "done"
    /\ sortArg = [type |-> "string", value |-> "desc"]
    /\ AllNames(series) = <<<<"b">>, <<"1", "0">>, <<"b">>, <<"B">>>>
    /\ categories = <<<<"b">>, <<"B">>, <<"1", "0">>>>

----------------------------------------------------------------------------
(* modifiers/bar-chart.js: the layout narrowing steps on layout objects    *)
(* (addAxisPointer, addDrillUpButton, addTitle)                            *)
(*                                                                         *)
(* A layout object lives in `heap`, a sequence of layouts; a reference is  *)
(* an index into it.  A step gets references, may create objects and       *)
(* write fields of objects, and returns a reference.  A title is <<>>      *)
(* (undefined) or <<text>>.                                                *)

\* { ...object }: the heap with a copy of the object of reference r
\* appended; the reference of the copy is the new length of the heap
spread(h, r) == Append(h, h[r])

\* addAxisPointer whose newLayout is the layout it was given, not a copy
addAxisPointerInPlace(h, args, styles, layoutRef, config, axisInfo, axis) ==
    IF pointerDisabled(PointerTypeArg(args, axis))
    THEN [heap |-> h, ret |-> layoutRef, config |-> config]
    ELSE LET newLayout == layoutRef
             r == addAxisPointer(args, styles, h[layoutRef], config, axisInfo, axis)
         IN  [heap |-> [h EXCEPT ![newLayout] = r.layout],
              ret |-> newLayout,
              config |-> r.config]

\* addAxisPointer(context, layout, config, axisInfo, axis) on objects: the
\* early return hands back the reference it was given; otherwise newLayout
\* is a copy, the switch writes to the copy, and the copy is returned
addAxisPointerObject(h, args, styles, layoutRef, config, axisInfo, axis) ==
    IF pointerDisabled(PointerTypeArg(args, axis))
    THEN [heap |-> h, ret |-> layoutRef, config |-> config]
    ELSE LET copied == spread(h, layoutRef)
             newLayout == Len(copied)
             r == addAxisPointer(args, styles, h[layoutRef], config, axisInfo, axis)
         IN  [heap |-> [copied EXCEPT ![newLayout] = r.layout],
              ret |-> newLayout,
              config |-> r.config]

\* generateDrillUpButtonConfig(text, layout, style): the group and the
\* shape of its first child
generateDrillUpButtonConfig(text, layout, buttonStyle) ==
    LET textMetrics == computeTextMetrics(text, NoMaxWidth)
    IN  [left |-> buttonStyle.marginLeft,
         top |-> buttonStyle.marginTop,
         shape |-> [width |-> IntOf(textMetrics.width) + buttonStyle.paddingLeft
                                + buttonStyle.paddingRight,
                    height |-> textMetrics.fontHeight + buttonStyle.paddingTop
                                 + buttonStyle.paddingBottom],
         text |-> text]

\* const { drillUpButtonText = '<' } = args
drillUpButtonTextOf(args) ==
    IF args.drillUpButtonText = Undefined THEN <<"<">> ELSE args.drillUpButtonText[1]

\* addDrillUpButton(context, config) on objects: layoutRef is
\* context.layout and path is this.drillPath
addDrillUpButton(h, path, args, styles, layoutRef, config) ==
    IF Len(path) = 0
    THEN [heap |-> h, ret |-> layoutRef, config |-> config]
    ELSE LET layout == h[layoutRef]
             buttonStyle == styles.drillUpButton
             titleStyle == styles.chartTitle
             xMargins == buttonStyle.marginLeft + buttonStyle.marginRight
             yMargins == buttonStyle.marginTop + buttonStyle.marginBottom
             aligned == [buttonStyle EXCEPT !.marginLeft = @ + titleStyle.marginLeft]
             buttonConfig == generateDrillUpButtonConfig(drillUpButtonTextOf(args),
                                                         layout, aligned)
             buttonBox == buttonConfig.shape
             copied == spread(h, layoutRef)
             new == Len(copied)
         IN  [heap |-> [copied EXCEPT
                          ![new].width = layout.width - buttonBox.width - xMargins,
                          ![new].height = layout.height - buttonBox.height - yMargins,
                          ![new].x = layout.x + buttonBox.width + xMargins,
                          ![new].y = layout.y + buttonBox.height + yMargins],
              ret |-> new,
              config |-> [config EXCEPT !.graphic = Some(buttonConfig)]]

\* AbstractChartModifier.addTitle(context, config): without a title the
\* layout is handed back; with one, config.title[0] is set and a layout
\* with the title's height taken from the top is returned
superAddTitle(h, title, titleStyle, layoutRef, config) ==
    IF title = Undefined
    THEN [heap |-> h, ret |-> layoutRef, config |-> config]
    ELSE LET layout == h[layoutRef]
             metrics == computeTextMetrics(title[1], NoMaxWidth)
             titleHeight == metrics.height + titleStyle.marginTop
                              + titleStyle.marginBottom
             copied == spread(h, layoutRef)
             new == Len(copied)
         IN  [heap |-> [copied EXCEPT ![new].height = layout.height - titleHeight,
                                      ![new].y = layout.y + titleHeight],
              ret |-> new,
              config |-> [config EXCEPT !.title =
                            Some([text |-> title[1],
                                  top |-> Num(layout.y + titleStyle.marginTop, 1),
                                  left |-> layout.x + titleStyle.marginLeft])]]

\* context.data.title ?? context.args.title
titleOf(args, data) == IF data.title # Undefined THEN data.title ELSE args.title

\* addTitle(context, config) on objects
addTitle(h, path, args, data, styles, layoutRef, config) ==
    LET b == addDrillUpButton(h, path, args, styles, layoutRef, config)
        buttonWidth == b.heap[layoutRef].width - b.heap[b.ret].width
        buttonHeight == b.heap[layoutRef].height - b.heap[b.ret].height
        t == superAddTitle(b.heap, titleOf(args, data), styles.chartTitle,
                           layoutRef, b.config)
        titleLayout == t.ret
    IN  IF t.config.title = Undefined
        THEN t
        ELSE LET titleHeight == t.heap[layoutRef].height - t.heap[titleLayout].height
                 heightDifference == buttonHeight - titleHeight
                 title0 == t.config.title[1]
             IN  IF buttonHeight > titleHeight
                 THEN [heap |-> [t.heap EXCEPT
                                   ![titleLayout].height = @ - heightDifference,
                                   ![titleLayout].y = @ + heightDifference],
                       ret |-> titleLayout,
                       config |-> [t.config EXCEPT !.title =
                                     Some([title0 EXCEPT
                                             !.top = NumAdd(DivBy(@, 2),
                                                            Num(heightDifference, 2)),
                                             !.left = @ + buttonWidth])]]
                 ELSE [heap |-> t.heap,
                       ret |-> titleLayout,
                       config |-> [t.config EXCEPT !.title =
                                     Some([title0 EXCEPT !.left = @ + buttonWidth])]]

----------------------------------------------------------------------------
(* Inputs of the layout steps *)

\* longest drillPath of a call
MaxPath == 2

\* defaultStyles.drillUpButton: margin 4, marginRight 10
DrillUpButtonStyle ==
    [marginTop |-> 4, marginRight |-> 10, marginBottom |-> 4, marginLeft |-> 4,
     paddingTop |-> 0, paddingRight |-> 0, paddingBottom |-> 0, paddingLeft |-> 0]

PaddedButtonStyle ==
    [marginTop |-> 2, marginRight |-> 0, marginBottom |-> 1, marginLeft |-> 3,
     paddingTop |-> 6, paddingRight |-> 5, paddingBottom |-> 6, paddingLeft |-> 5]

ChartTitleStyles ==
    {[marginTop |-> 0, marginRight |-> 0, marginBottom |-> 0, marginLeft |-> 0],
     [marginTop |-> 8, marginRight |-> 4, marginBottom |-> 12, marginLeft |-> 4]}

Titles == {Undefined, Some(<<"T">>), Some(<<"S", "a", "l", "e", "s">>)}

ButtonTexts == {Undefined, Some(<<"U", "p">>)}

DrillPaths == UNION {[1..k -> 0..1] : k \in 0..MaxPath}

TitleConfig == [title |-> Undefined, graphic |-> Undefined]

\* a call of addDrillUpButton or of addTitle: context.layout is object 1
TitleInputs(op) ==
    [op : {op},
     path : DrillPaths,
     args : [drillUpButtonText : ButtonTexts, title : Titles],
     data : [title : Titles],
     styles : [drillUpButton : {DrillUpButtonStyle, PaddedButtonStyle},
               chartTitle : ChartTitleStyles],
     heap : {<<l>> : l \in Layouts},
     layoutRef : {1},
     config : {TitleConfig}]

\* a call of addAxisPointer: context.layout is object 1 and the layout
\* argument is that object or the object of a cell
ObjectPointerInputs ==
    UNION {
        [op : {"addAxisPointer"},
         axis : {axis},
         args : {PointerArgs(axis, type, label, "undefined", FALSE) :
                    type \in PointerTypes, label \in LabelPositions},
         styles : {PointerStylesArg(DefaultPointerStyle, ls) :
                    ls \in PointerLabelStyles},
         heap : {<<PlainLayout>>, <<PlainLayout, BoxedLayout>>},
         layoutRef : {ref},
         config : {EmptyConfig},
         axisInfo : PointerAxisInfos(axis)] : axis \in {"x", "y"}, ref \in {1, 2}}

ObjectInputs ==
    {in \in ObjectPointerInputs : in.layoutRef <= Len(in.heap)}
      \cup TitleInputs("addDrillUpButton") \cup TitleInputs("addTitle")

InitObjects ==
    /\ pc = "start"
    /\ callIn \in ObjectInputs
    /\ heap = callIn.heap
    /\ callOut = <<>>
    /\ IdleCore
    /\ IdleAxes
    /\ IdleCells
    /\ IdleChart

\* the step leaves its result in `heap` and `callOut`
Returns(r) ==
    /\ heap' = r.heap
    /\ callOut' = [ret |-> r.ret, config |-> r.config]
    /\ pc' = "done"
    /\ UNCHANGED callIn
    /\ UNCHANGED <<coreVars, axisVars, cellVars, chartVars>>

CallAddAxisPointer ==
    /\ pc = "start"
    /\ callIn.op = "addAxisPointer"
    /\ Returns(addAxisPointerObject(heap, callIn.args, callIn.styles,
                                    callIn.layoutRef, callIn.config,
                                    callIn.axisInfo, callIn.axis))

CallAddDrillUpButton ==
    /\ pc = "start"
    /\ callIn.op = "addDrillUpButton"
    /\ Returns(addDrillUpButton(heap, callIn.path, callIn.args, callIn.styles,
                                callIn.layoutRef, callIn.config))

CallAddTitle ==
    /\ pc = "start"
    /\ callIn.op = "addTitle"
    /\ Returns(addTitle(heap, callIn.path, callIn.args, callIn.data,
                        callIn.styles, callIn.layoutRef, callIn.config))

NextObjects == CallAddAxisPointer \/ CallAddDrillUpButton \/ CallAddTitle

SpecObjects == InitObjects /\ [][NextObjects]_vars

\* C15: addAxisPointer and addDrillUpButton leave every layout object they
\* are given (the layout argument and context.layout) as it was before the
\* call; a geometry that differs from the input layout's is held by an
\* object created by the call, which is the one returned.
Thm_C15 ==
    (pc = "done" /\ callIn.op \in {"addAxisPointer", "addDrillUpButton"}) =>
        /\ Len(heap) >= Len(callIn.heap)
        /\ \A r \in 1..Len(callIn.heap) : heap[r] = callIn.heap[r]
        /\ heap[callOut.ret] # callIn.heap[callIn.layoutRef] =>
               callOut.ret > Len(callIn.heap)

\* an X axis pointer with its label on top, called on context.layout: the
\* returned object is new and lower, context.layout still 300 high inside
Wit_C15 ==
    /\ pc = "done"
    /\ callIn.op = "addAxisPointer"
    /\ callIn.axis = "x"
    /\ callIn.args.xAxisPointer = "line"
    /\ callIn.args.xAxisPointerLabel = "top"
    /\ callIn.layoutRef = 1
    /\ callOut.ret = Len(callIn.heap) + 1
    /\ heap[callOut.ret].innerHeight < 300
    /\ heap[1] = PlainLayout

\* the height of the drill-up button with its top and bottom margins
ButtonExtent ==
    LineHeight + callIn.styles.drillUpButton.paddingTop
      + callIn.styles.drillUpButton.paddingBottom
      + callIn.styles.drillUpButton.marginTop
      + callIn.styles.drillUpButton.marginBottom

\* the height of the title with its top and bottom margins
TitleExtent ==
    LineHeight + callIn.styles.chartTitle.marginTop
      + callIn.styles.chartTitle.marginBottom

\* C18: the drill-up button is added exactly when drillPath is not empty
\* (with an empty drillPath addDrillUpButton returns context.layout and
\* leaves config alone); when it is added, the layout addTitle returns is
\* lower than context.layout by at least the height of the button plus its
\* top and bottom margins, by the larger of the button's and the title's
\* extent when there is a title, and its y is advanced by the same amount.
Cex_C18 ==
    (pc = "done" /\ callIn.op \in {"addDrillUpButton", "addTitle"}) =>
        LET added == callOut.config.graphic # Undefined
            before == callIn.heap[callIn.layoutRef]
            after == heap[callOut.ret]
            reduction == before.height - after.height
        IN  /\ added <=> Len(callIn.path) > 0
            /\ (callIn.op = "addDrillUpButton" /\ Len(callIn.path) = 0) =>
                   /\ callOut.ret = callIn.layoutRef
                   /\ callOut.config = callIn.config
            /\ (callIn.op = "addTitle" /\ added) =>
                   /\ reduction >= ButtonExtent
                   /\ after.y = before.y + reduction
                   /\ callOut.config.title # Undefined =>
                          reduction = (IF ButtonExtent > TitleExtent
                                       THEN ButtonExtent ELSE TitleExtent)

----------------------------------------------------------------------------
(* modifiers/bar-chart.js: createContextData and the event handlers of     *)
(* configureChart (selectchanged, dblclick) and of the drill-up button     *)
(*                                                                         *)
(* An entry of a data series is a record [label, data, nested, series]:    *)
(* label is <<>> (undefined) or <<text>>, data the sequence of its data    *)
(* items, nested tells whether the entry has a `series` property and       *)
(* series is that array.  args.series is always given, categoryAxisSort,   *)
(* rotateData and variant are omitted.  A name handed to a callback is a   *)
(* record [kind, name] of kind "name", "null" or "undefined".              *)

NameOf(n) == [kind |-> "name", name |-> n]

NameNull == [kind |-> "null", name |-> <<>>]

NameUndefined == [kind |-> "undefined", name |-> <<>>]

\* ToBoolean of a name
NameTruthy(v) == v.kind = "name" /\ v.name # <<>>

\* the reducer of createContextData: { series, title } after one pathIndex;
\* `threw` records a TypeError (a property read on undefined)
drillStep(acc, pathIndex) ==
    IF acc.threw \/ ~acc.defined \/ (pathIndex + 1) \notin DOMAIN acc.series
    THEN [acc EXCEPT !.threw = TRUE]
    ELSE LET entry == acc.series[pathIndex + 1]
         IN  [threw |-> FALSE,
              defined |-> entry.nested,
              series |-> IF entry.nested THEN entry.series ELSE <<>>,
              title |-> entry.label]

\* this.drillPath.reduce(..., { series: seriesData, title: args.title })
RECURSIVE reduceDrillPath(_, _)
reduceDrillPath(acc, path) ==
    IF path = <<>> THEN acc
    ELSE reduceDrillPath(drillStep(acc, Head(path)), Tail(path))

\* createContextData(args, chart): the dataset, the title and, for a shared
\* category axis, the categories of the top-level series; `path` is the
\* drillPath the data was built from
createContextData(args, path) ==
    LET r == reduceDrillPath([threw |-> FALSE, defined |-> TRUE,
                              series |-> args.series, title |-> args.title], path)
    IN  [threw |-> r.threw,
         defined |-> r.defined,
         dataset |-> r.series,
         title |-> r.title,
         categories |-> IF args.categoryAxisScale = "shared"
                        THEN getCategories([type |-> "undefined", value |-> ""],
                                           args.series, <<>>).categories
                        ELSE <<>>,
         path |-> path]

\* the dblclick handler that drills into every entry
dblclickAlwaysDrills(ctx, path, seriesIndex) == Append(path, seriesIndex)

\* the dblclick handler: this.drillPath after the event
dblclickHandler(ctx, path, seriesIndex) ==
    IF ctx.dataset[seriesIndex + 1].nested
    THEN Append(path, seriesIndex)
    ELSE path

\* onclick of the drill-up button: this.drillPath.popObject()
drillUpOnclick(path) ==
    IF path = <<>> THEN path ELSE SubSeq(path, 1, Len(path) - 1)

NoEffects == [threw |-> FALSE, dispatched |-> <<>>, onSelect |-> <<>>]

\* the selectchanged handler: the actions it dispatches and the calls of
\* onSelect it makes; allSeries is args.series
selectchangedHandler(args, ctx, event) ==
    IF ~event.isFromClick THEN NoEffects
    ELSE LET allSeries == args.series
             seriesIndex == event.seriesIndex
             dataIndex == event.dataIndexInside
             shared == args.categoryAxisScale = "shared"
         IN  IF ~shared /\ (seriesIndex + 1) \notin DOMAIN allSeries
             THEN [NoEffects EXCEPT !.threw = TRUE]
             ELSE LET name ==
                          IF shared
                          THEN IF (dataIndex + 1) \in DOMAIN ctx.categories
                               THEN NameOf(ctx.categories[dataIndex + 1])
                               ELSE NameUndefined
                          ELSE IF (dataIndex + 1) \in DOMAIN allSeries[seriesIndex + 1].data
                               THEN NameOf(allSeries[seriesIndex + 1].data[dataIndex + 1].name)
                               ELSE NameNull
                  IN  [threw |-> FALSE,
                       dispatched |-> IF NameTruthy(name)
                                      THEN <<[type |-> event.fromAction, name |-> name]>>
                                      ELSE <<>>,
                       onSelect |-> IF args.onSelect
                                    THEN <<IF event.fromAction = "select"
                                           THEN name ELSE NameNull>>
                                    ELSE <<>>]

----------------------------------------------------------------------------
(* The chart: configureChart after every change of drillPath, and the      *)
(* events between two renderings                                           *)

Item(n) == [name |-> n, value |-> 1]

Leaf(label, names) ==
    [label |-> label, data |-> [i \in 1..Len(names) |-> Item(names[i])],
     nested |-> FALSE, series |-> <<>>]

Node(label, names, children) ==
    [label |-> label, data |-> [i \in 1..Len(names) |-> Item(names[i])],
     nested |-> TRUE, series |-> children]

\* two series; the first one drills into three, the second of which drills
\* into one without label
DeepSeries ==
    <<Node(Some("A"), <<<<"b">>, <<"B">>>>,
           <<Leaf(Some("A1"), <<<<"B">>>>),
             Node(Some("A2"), <<<<"B">>, <<"b">>>>,
                  <<Leaf(Undefined, <<<<"1", "0">>>>)>>),
             Leaf(Some("A3"), <<<<"b">>, <<"B">>, <<"1", "0">>>>)>>),
      Leaf(Some("B"), <<<<"B">>, <<"b">>>>)>>

\* a series without nested series and one whose nested series are empty
FlatSeries ==
    <<Leaf(Some("C"), <<<<"b">>>>),
      Node(Undefined, <<<<"b">>, <<"B">>>>, <<>>)>>

ChartArgs ==
    [series : {DeepSeries, FlatSeries},
     title : {Undefined, Some("Sales")},
     categoryAxisScale : {"undefined", "shared"},
     onSelect : BOOLEAN]

NoEvent ==
    [type |-> "none", seriesIndex |-> 0, dataIndexInside |-> 0,
     fromAction |-> "", isFromClick |-> FALSE]

\* the categories on the category axis of the plot of a displayed series
AxisCategories(args, ctx, seriesIndex) ==
    IF args.categoryAxisScale = "shared"
    THEN ctx.categories
    ELSE getCategories([type |-> "undefined", value |-> ""],
                       <<ctx.dataset[seriesIndex + 1]>>, <<>>).categories

\* the chart shows ctxData, and ctxData was built from the current drillPath
Rendered == ~ctxData.threw /\ ctxData.defined /\ ctxData.path = drillPath

InitChart ==
    /\ pc = "chart"
    /\ chartArgs \in ChartArgs
    /\ drillPath = <<>>
    /\ ctxData = createContextData(chartArgs, <<>>)
    /\ lastEvent = NoEvent
    /\ effects = NoEffects
    /\ IdleCore
    /\ IdleAxes
    /\ IdleCells
    /\ IdleObjects

\* drillPath is tracked: a change of it runs configureChart again before
\* the next event
Render ==
    /\ ctxData.path # drillPath
    /\ ~ctxData.threw
    /\ ctxData' = createContextData(chartArgs, drillPath)
    /\ UNCHANGED <<pc, chartArgs, drillPath, lastEvent, effects>>
    /\ UNCHANGED <<coreVars, axisVars, cellVars, objectVars>>

\* a double click on the plot of the displayed series seriesIndex
DblClick ==
    /\ Rendered
    /\ \E seriesIndex \in 0..(Len(ctxData.dataset) - 1) :
           /\ drillPath' = dblclickHandler(ctxData, drillPath, seriesIndex)
           /\ lastEvent' = [NoEvent EXCEPT !.type = "dblclick",
                                           !.seriesIndex = seriesIndex]
    /\ effects' = NoEffects
    /\ UNCHANGED <<pc, chartArgs, ctxData>>
    /\ UNCHANGED <<coreVars, axisVars, cellVars, objectVars>>

\* a click on the drill-up button, which is shown for a non-empty drillPath
DrillUpClick ==
    /\ Rendered
    /\ Len(ctxData.path) > 0
    /\ drillPath' = drillUpOnclick(drillPath)
    /\ lastEvent' = [NoEvent EXCEPT !.type = "drillUp"]
    /\ effects' = NoEffects
    /\ UNCHANGED <<pc, chartArgs, ctxData>>
    /\ UNCHANGED <<coreVars, axisVars, cellVars, objectVars>>

\* a selectchanged event for the item at the axis position dataIndexInside
\* of the plot of the displayed series seriesIndex
SelectChanged ==
    /\ Rendered
    /\ \E seriesIndex \in 0..(Len(ctxData.dataset) - 1) :
         \E dataIndexInside \in
                0..(Len(AxisCategories(chartArgs, ctxData, seriesIndex)) - 1) :
           \E fromAction \in {"select", "unselect"}, isFromClick \in BOOLEAN :
             LET event == [type |-> "selectchanged",
                           seriesIndex |-> seriesIndex,
                           dataIndexInside |-> dataIndexInside,
                           fromAction |-> fromAction,
                           isFromClick |-> isFromClick]
             IN  /\ lastEvent' = event
                 /\ effects' = selectchangedHandler(chartArgs, ctxData, event)
    /\ UNCHANGED <<pc, chartArgs, drillPath, ctxData>>
    /\ UNCHANGED <<coreVars, axisVars, cellVars, objectVars>>

NextChart == Render \/ DblClick \/ DrillUpClick \/ SelectChanged

SpecChart == InitChart /\ [][NextChart]_vars

\* every index of the path addresses, at its level, an entry with nested
\* series
RECURSIVE ValidPath(_, _)
ValidPath(level, path) ==
    \/ path = <<>>
    \/ /\ (Head(path) + 1) \in DOMAIN level
       /\ level[Head(path) + 1].nested
       /\ ValidPath(level[Head(path) + 1].series, Tail(path))

\* the entry a valid, non-empty path leads to
RECURSIVE DrilledEntry(_, _)
DrilledEntry(level, path) ==
    IF Len(path) = 1 THEN level[Head(path) + 1]
    ELSE DrilledEntry(level[Head(path) + 1].series, Tail(path))

\* the series displayed for a valid path
DisplayedLevel(path) ==
    IF path = <<>> THEN chartArgs.series
    ELSE DrilledEntry(chartArgs.series, path).series

\* drillPath is valid, createContextData did not fail, and the data shown
\* are those of the entry its path leads to
DrillPathValid ==
    /\ ValidPath(chartArgs.series, drillPath)
    /\ ~ctxData.threw
    /\ ctxData.defined
    /\ ValidPath(chartArgs.series, ctxData.path)
    /\ ctxData.dataset = DisplayedLevel(ctxData.path)
    /\ ctxData.title = (IF ctxData.path = <<>> THEN chartArgs.title
                        ELSE DrilledEntry(chartArgs.series, ctxData.path).label)

\* a double click drills into the entry when it has nested series and
\* leaves drillPath alone otherwise; the drill-up button removes the last
\* index only; nothing else changes drillPath
DrillSteps ==
    /\ (ctxData' = ctxData /\ lastEvent'.type = "dblclick") =>
           drillPath' =
               (IF DisplayedLevel(drillPath)[lastEvent'.seriesIndex + 1].nested
                THEN Append(drillPath, lastEvent'.seriesIndex)
                ELSE drillPath)
    /\ (ctxData' = ctxData /\ lastEvent'.type = "drillUp") =>
           /\ drillPath # <<>>
           /\ drillPath' = SubSeq(drillPath, 1, Len(drillPath) - 1)
    /\ drillPath' # drillPath =>
           (ctxData' = ctxData /\ lastEvent'.type \in {"dblclick", "drillUp"})

\* C16: from an empty drillPath and with unchanged data, after any
\* double clicks and drill-up clicks every index of drillPath addresses an
\* entry with nested series, so createContextData never reads a missing
\* entry and shows the dataset and the title of the last drilled entry; a
\* double click on an entry without nested series leaves drillPath
\* unchanged and a drill-up removes the most recent index only.
Thm_C16 == [](pc = "chart" => DrillPathValid) /\ [][pc = "chart" => DrillSteps]_vars

\* drilled into A and then into its second entry A2, and rendered
Wit_C16 ==
    /\ pc = "chart"
    /\ chartArgs.series = DeepSeries
    /\ drillPath = <<0, 1>>
    /\ Rendered
    /\ ctxData.title = Some("A2")
    /\ Len(ctxData.dataset) = 1
    /\ lastEvent.type = "dblclick"

\* the category at the clicked position of the axis of the clicked plot
ClickedName ==
    AxisCategories(chartArgs, ctxData, lastEvent.seriesIndex)
        [lastEvent.dataIndexInside + 1]

\* C17: a selectchanged event that is not from a click dispatches nothing
\* and does not call onSelect; one from a click calls onSelect exactly
\* once, with the category name of the clicked item for the action "select"
\* and with null for any other action; an action is dispatched only with a
\* resolved name.
Cex_C17 ==
    (pc = "chart" /\ lastEvent.type = "selectchanged") =>
        /\ ~lastEvent.isFromClick =>
               (effects.dispatched = <<>> /\ effects.onSelect = <<>>)
        /\ (lastEvent.isFromClick /\ chartArgs.onSelect) =>
               effects.onSelect
                 = <<IF lastEvent.fromAction = "select"
                     THEN NameOf(ClickedName) ELSE NameNull>>
        /\ ~chartArgs.onSelect => effects.onSelect = <<>>
        /\ effects.dispatched # <<>> =>
               /\ lastEvent.isFromClick
               /\ effects.dispatched
                    = <<[type |-> lastEvent.fromAction, name |-> NameOf(ClickedName)]>>

\* the pointer label positions the documentation lists for each axis
DocumentedPointerLabels ==
    /\ plotIn.args.xAxisPointerLabel \in {"bottom", "top", "none"}
    /\ plotIn.args.yAxisPointerLabel \in {"left", "right", "none"}

\* C19: for the documented pointer label positions the grid, the Y axis
\* strip to its left and the X axis strip below it lie inside the inner
\* rectangle of the final layout: the Y axis strip starts one pixel left of
\* innerX, the grid ends at or before innerX + innerWidth, starts at or
\* below innerY, and grid plus X axis strip end exactly at
\* innerY + innerHeight.
Thm_C19 ==
    (pc = "done" /\ DocumentedPointerLabels) =>
        LET grid == plotOut.grid
            layout == plotOut.layout
        IN  /\ layout.nan = {}
            /\ grid.nan = {}
            /\ grid.x - plotOut.yAxisInfo.width >= layout.innerX - 1
            /\ grid.x + grid.width <= layout.innerX + layout.innerWidth
            /\ grid.y >= layout.innerY
            /\ grid.y + grid.height + plotOut.xAxisInfo.height[1]
                 = layout.innerY + layout.innerHeight

\* a vertical plot in the 400 x 300 layout with the Y pointer label on the
\* right and the X pointer label on top
Wit_C19 ==
    /\ pc = "done"
    /\ ~PlotHorizontal
    /\ plotIn.layout = PlainLayout
    /\ plotIn.args.xAxisPointer = "line"
    /\ plotIn.args.yAxisPointer = "line"
    /\ plotIn.args.xAxisPointerLabel = "top"
    /\ plotIn.args.yAxisPointerLabel = "right"
    /\ plotIn.categories = <<<<"a">>>>
    /\ plotIn.valueTexts = <<<<"2", "5", "0">>>>
    /\ plotOut.layout.innerWidth < 400
    /\ plotOut.layout.innerY > 0
    /\ plotOut.grid.x + plotOut.grid.width <= plotOut.layout.innerWidth
    /\ plotOut.grid.y > plotOut.layout.innerY

====
